---------------------------- MODULE Spec2Model ----------------------------
(***************************************************************************)
(* A model of autocontenuelisabot/bot.py: the weekly autopost workers, the *)
(* delivery of one post to one channel, the SQLite table of scheduled      *)
(* deletions and the autodelete worker that drains it.                     *)
(*                                                                         *)
(* The specifications share the variables:                                 *)
(*   SpecLedger  the four db_* functions applied to inputs from small sets *)
(*   SpecWeekly  _seconds_until_next_weekly applied to a clock and a       *)
(*               schedule from small sets                                  *)
(*   SpecDst     the same and the sleep, in a zone that changes its offset *)
(*   SpecResolve _resolve_chat_id applied to ints and short strs           *)
(*   Spec        the asyncio program: one _autopost_worker per post, the   *)
(*               /force_post_index handler and the _autodelete_worker      *)
(*   SpecRetention  Spec started on the eve of a change of the zone's      *)
(*               offset                                                    *)
(*   SpecFaults  Spec with db_* calls that raise, a handle that moves, a   *)
(*               schedule that may be missing, and downloads and           *)
(*               conversions that take time                                *)
(*   SpecEdits   Spec with schedules edited while the program runs         *)
(*   SpecMedia   one pass of the delivery loop for posts with remote and   *)
(*               local media of every type                                 *)
(*   SpecReaper  the _autodelete_worker alone on a table of a few rows or  *)
(*               of more due rows than one batch                           *)
(***************************************************************************)
EXTENDS Integers, Sequences, FiniteSets, TLC

VARIABLES
    ledger,     \* the rows of table deletions (bot.py:58-63)
    seq,        \* sqlite_sequence of the table: the largest id ever given
    gone,       \* history: the ids of the rows deleted from the table
    op,         \* SpecLedger: the last db_* call, its arguments and result
    wk,         \* SpecWeekly: a local clock, a schedule and the wait computed
    now,        \* Spec: the clock, in whole seconds (a Unix timestamp)
    running,    \* Spec: the task the event loop is running, or "none"
    task,       \* Spec: the workers and the /force_post_index handler
    reaper,     \* Spec: the _autodelete_worker
    client,     \* Spec: the channels as the channel client sees them
    files,      \* Spec: the files on disk
    cfg,        \* Spec: config.py and MESSAGES
    published,  \* history: the messages the channels accepted
    retractions,\* history: the delete_messages calls that returned or raised
    budget      \* the environment's faults, delays and commands so far

ledgerVars == <<ledger, seq, gone>>
sysVars == <<now, running, task, reaper, client, files, cfg, published,
             retractions, budget>>
vars == <<ledger, seq, gone, op, wk, now, running, task, reaper, client,
          files, cfg, published, retractions, budget>>

(***************************************************************************)
(* Bounds of the model.                                                    *)
(***************************************************************************)
\* SpecLedger: rows ever inserted, the largest delete_at, the largest limit
MaxRows == 4
MaxDue == 1
MaxLimit == 2
\* SpecWeekly: the clock starts on one of the days 0..MaxDay (day 0 a Monday)
MaxDay == 7
\* Spec: what the environment may do in one run, counted together: failures
\* (a lookup, a download, a send or a delete_messages that fails), seconds a
\* network answer takes, /force_post_index commands; and the days the clock
\* may run
MaxEvents == 1
HorizonDays == 2
\* config.AUTO_DELETE_AFTER_DAYS (config.py is not part of the sources)
AUTO_DELETE_AFTER_DAYS == 1

(***************************************************************************)
(* The table deletions.  A row is [id, chat_id, message_id, delete_at];    *)
(* id is INTEGER PRIMARY KEY AUTOINCREMENT: one more than the largest id   *)
(* the table ever held, so an id is never given twice.                     *)
(***************************************************************************)
\* db_init: CREATE TABLE IF NOT EXISTS on a fresh file leaves an empty table
db_init == [rows |-> {}, sequence |-> 0]

Row(id, chat_id, message_id, delete_at) ==
    [id |-> id, chat_id |-> chat_id, message_id |-> message_id,
     delete_at |-> delete_at]

\* INSERT INTO deletions (chat_id, message_id, delete_at) VALUES (?, ?, ?)
db_schedule_deletion(rows, sequence, chat_id, message_id, delete_at_ts) ==
    [rows |-> rows \cup {Row(sequence + 1, chat_id, message_id, delete_at_ts)},
     sequence |-> sequence + 1]

\* F(x), where the value of x is computed once
apply(F(_), x) == CHOOSE y \in {F(v) : v \in {x}} : TRUE

\* the integers low..high that are in ids, smallest first
ids_between(ids, low, high) ==
    LET held(id) == id \in ids
    IN  SelectSeq([k \in 1..(high - low + 1) |-> low + k - 1], held)

\* the integers of a finite set, smallest first
ids_ascending(ids) ==
    LET from(low) ==
            LET upto(high) == ids_between(ids, low, high)
            IN  apply(upto, CHOOSE x \in ids : \A y \in ids : x >= y)
    IN  IF ids = {} THEN <<>>
        ELSE apply(from, CHOOSE x \in ids : \A y \in ids : x <= y)

\* the row of the id
RowOfId(rows, id) == CHOOSE r \in rows : r.id = id

\* mutant: ORDER BY id DESC
OrderByIdDesc(rows) ==
    LET in_order(ids) ==
            [i \in 1..Len(ids) |-> RowOfId(rows, ids[Len(ids) + 1 - i])]
    IN  apply(in_order, apply(ids_ascending, {r.id : r \in rows}))

\* ORDER BY id ASC: the rows of a set as a sequence, smallest id first (id
\* is the primary key: no two rows have the same)
OrderByIdAsc(rows) ==
    LET in_order(ids) == [i \in 1..Len(ids) |-> RowOfId(rows, ids[i])]
    IN  apply(in_order, apply(ids_ascending, {r.id : r \in rows}))

\* mutant: the LIMIT clause dropped
SqlLimit_dropped(s, n) == s

\* LIMIT n: the first n rows; SQLite reads a negative LIMIT as no limit
SqlLimit(s, n) ==
    IF n < 0 \/ n >= Len(s) THEN s ELSE SubSeq(s, 1, n)

\* mutant: WHERE delete_at < ?
DueRows_strict(rows, now_ts) == {r \in rows : r.delete_at < now_ts}

\* WHERE delete_at <= ?
DueRows(rows, now_ts) == {r \in rows : r.delete_at <= now_ts}

\* SELECT id, chat_id, message_id ... WHERE delete_at <= ? ORDER BY id ASC LIMIT ?
db_fetch_due_deletions(rows, now_ts, limit) ==
    LET columns(picked) ==
            [i \in 1..Len(picked) |->
                <<picked[i].id, picked[i].chat_id, picked[i].message_id>>]
    IN  apply(columns, SqlLimit(OrderByIdAsc(DueRows(rows, now_ts)), limit))

\* mutant: DELETE FROM deletions WHERE id>=?
db_delete_deletion_row_from(rows, row_id) == {r \in rows : r.id < row_id}

\* DELETE FROM deletions WHERE id=?
db_delete_deletion_row(rows, row_id) == {r \in rows : r.id # row_id}

\* whether the DELETE raises: a DELETE that matches no row is not an error
db_delete_raises(rows, row_id) == FALSE

RowIds(rows) == {r.id : r \in rows}

(***************************************************************************)
(* Local date-times.  datetime.now(tz) is an aware datetime; sums with a   *)
(* timedelta, replace(), comparison and difference of two datetimes with   *)
(* the same tzinfo all work on the wall-clock fields.  A datetime is       *)
(* [secs, us]: the wall-clock seconds since 00:00 of day 0, a Monday, and  *)
(* the microsecond.  A timedelta is [secs, us] too.                        *)
(***************************************************************************)
DaySeconds == 24 * 60 * 60
MicrosPerSecond == 1000 * 1000

DateTime(secs, us) == [secs |-> secs, us |-> us]

\* datetime.weekday(): Monday is 0
weekday(dt) == (dt.secs \div DaySeconds) % 7
dt_hour(dt) == (dt.secs % DaySeconds) \div 3600
dt_minute(dt) == (dt.secs % 3600) \div 60
dt_second(dt) == dt.secs % 60

\* dt + timedelta(days=n)
plus_days(dt, n) == DateTime(dt.secs + n * DaySeconds, dt.us)

\* what a call gives when it raises ValueError instead of returning
ValueError == [raised |-> TRUE]

\* dt.replace(hour=hour, minute=minute, second=0, microsecond=0); replace
\* raises ValueError unless 0 <= hour <= 23 and 0 <= minute <= 59
replace_time(dt, hour, minute) ==
    IF hour \in 0..23 /\ minute \in 0..59
    THEN DateTime((dt.secs \div DaySeconds) * DaySeconds + hour * 3600 + minute * 60, 0)
    ELSE ValueError

\* a <= b
dt_le(a, b) == a.secs < b.secs \/ (a.secs = b.secs /\ a.us <= b.us)

\* (a - b), a timedelta with 0 <= us < 10^6
dt_minus(a, b) ==
    IF a.us >= b.us THEN [secs |-> a.secs - b.secs, us |-> a.us - b.us]
    ELSE [secs |-> a.secs - b.secs - 1, us |-> a.us + MicrosPerSecond - b.us]

\* dt + timedelta
dt_plus(dt, td) ==
    IF dt.us + td.us < MicrosPerSecond
    THEN DateTime(dt.secs + td.secs, dt.us + td.us)
    ELSE DateTime(dt.secs + td.secs + 1, dt.us + td.us - MicrosPerSecond)

\* mutant: the weekday difference taken as 7 when today is the weekday
days_ahead_never_today(now_dt, weekday_idx) ==
    IF weekday_idx = weekday(now_dt) THEN 7 ELSE (weekday_idx - weekday(now_dt)) % 7

\* days_ahead = (weekday_idx - now.weekday()) % 7
days_ahead(now_dt, weekday_idx) == (weekday_idx - weekday(now_dt)) % 7

\* mutant: if target < now
roll_forward_strict(target, now_dt) ==
    IF ~dt_le(now_dt, target) THEN plus_days(target, 7) ELSE target

\* if target <= now: target += timedelta(days=7)
roll_forward(target, now_dt) ==
    IF dt_le(target, now_dt) THEN plus_days(target, 7) ELSE target

\* the target of _seconds_until_next_weekly, the clock reading now_dt, or
\* ValueError when replace raises
next_weekly_target(now_dt, weekday_idx, hour, minute) ==
    LET target == replace_time(plus_days(now_dt, days_ahead(now_dt, weekday_idx)),
                               hour, minute)
    IN  IF target = ValueError THEN ValueError ELSE roll_forward(target, now_dt)

\* _seconds_until_next_weekly: (target - now).total_seconds(), kept as whole
\* seconds and microseconds, or ValueError when replace raises
seconds_until_next_weekly(now_dt, weekday_idx, hour, minute) ==
    LET target == next_weekly_target(now_dt, weekday_idx, hour, minute)
    IN  IF target = ValueError THEN ValueError ELSE dt_minus(target, now_dt)

\* max(1, wait_s)
max_1(wait_s) == IF wait_s.secs >= 1 THEN wait_s ELSE [secs |-> 1, us |-> 0]

(***************************************************************************)
(* The program.  The clock `now` counts whole seconds; a datetime read     *)
(* from it has microsecond 0.  Second 0 is 00:00 UTC of day 0.             *)
(***************************************************************************)
\* what the environment has done so far
Spent == budget.faults + budget.delays + budget.forces

\* The zones config.TIMEZONE names in the model (config.py is not part of
\* the sources).  In "fixed" the offset is +1 h all along; in "spring" and
\* "autumn" it changes at 01:00 UTC of the Sunday of the week, DstChange (the
\* rule of the European zones): from +1 h to +2 h in spring, from +2 h to
\* +1 h in autumn.
DstChange == 6 * DaySeconds + 3600
FixedZone == "fixed"
DstZones == {"spring", "autumn"}

\* tz.utcoffset at the UTC second `utc`
utcoffset(zone, utc) ==
    IF zone = FixedZone THEN 3600
    ELSE IF (zone = "spring") = (utc >= DstChange) THEN 2 * 3600 ELSE 3600

\* dt.utcoffset() of an aware datetime whose wall-clock seconds are `wall`
\* (fold=0): the offset before the change up to the later of the two wall
\* readings of the change, the offset after it from there on; a reading the
\* wall clock shows twice is the first of the two, one it skips is taken
\* with the offset before the change
wall_utcoffset(zone, wall) ==
    IF wall < DstChange + 2 * 3600 THEN utcoffset(zone, DstChange - 1)
    ELSE utcoffset(zone, DstChange)

\* bot.py:727 and 742: datetime.now(tz), tz = ZoneInfo(config.TIMEZONE)
now_local(ts) == DateTime(ts + utcoffset(cfg.TIMEZONE, ts), 0)

\* int(dt.timestamp()) of a datetime of that zone
timestamp(dt) == dt.secs - wall_utcoffset(cfg.TIMEZONE, dt.secs)

(***************************************************************************)
(* Values.  Where the code holds None, an int or a str, the model holds    *)
(* one of these records; a str is kept as its characters.                  *)
(***************************************************************************)
None == [kind |-> "None", n |-> 0, s |-> <<>>]
IntVal(n) == [kind |-> "int", n |-> n, s |-> <<>>]
StrVal(chars) == [kind |-> "str", n |-> 0, s |-> chars]

\* bool(v), as in `if mid:` (bot.py:741): None, 0 and "" are false
truthy(v) == v \notin {None, IntVal(0), StrVal(<<>>)}

\* the printable ASCII characters U+0020..U+005F and U+0061..U+007E, in code
\* point order (U+0060 cannot be written in a string of the model)
AsciiLow ==
    " !\"#$%&'()*+,-./0123456789:;<=>?@ABCDEFGHIJKLMNOPQRSTUVWXYZ[\\]^_"

AsciiHigh ==
    "abcdefghijklmnopqrstuvwxyz{|}~"

\* ord(c) of a printable ASCII character
ord(c) ==
    IF \E k \in 1..Len(AsciiLow) : SubSeq(AsciiLow, k, k) = c
    THEN 31 + CHOOSE k \in 1..Len(AsciiLow) : SubSeq(AsciiLow, k, k) = c
    ELSE 96 + CHOOSE k \in 1..Len(AsciiHigh) : SubSeq(AsciiHigh, k, k) = c

\* the str a literal of printable ASCII characters stands for: the
\* sequence of the code points of its characters
str(literal) ==
    LET code(i) == ord(SubSeq(literal, i, i))
    IN  SubSeq([i \in 1..Len(literal) |-> code(i)], 1, Len(literal))

\* c is in one of the ranges <<first, last>>
in_ranges(c, ranges) == \E r \in ranges : r[1] <= c /\ c <= r[2]

\* the characters str.isspace() holds of, which str.strip() drops
WhitespaceCodes ==
    {9, 10, 11, 12, 13, 28, 29, 30, 31, 32, 133, 160, 5760, 8232, 8233,
     8239, 8287, 12288} \cup 8192..8202

\* the white space int() drops around a number: the same, but for the
\* separators U+001C..U+001F
IntWhitespaceCodes == WhitespaceCodes \ 28..31

RECURSIVE skip(_, _, _, _)
\* the first position of s, going from i by steps of `step`, of a character
\* that is not one of `chars`; 0 or Len(s) + 1 when s ends before one
skip(s, chars, i, step) ==
    IF i < 1 \/ i > Len(s) \/ s[i] \notin chars THEN i
    ELSE skip(s, chars, i + step, step)

\* s from its first to its last character that is not one of `chars`
strip_chars(s, chars) ==
    LET from(first) ==
            IF first > Len(s) THEN <<>>
            ELSE SubSeq(s, first, skip(s, chars, Len(s), -1))
    IN  apply(from, skip(s, chars, 1, 1))

\* s.strip()
strip(s) == strip_chars(s, WhitespaceCodes)

\* s.split(sep) for a separator of one character: the list of the pieces
\* between the separators, one more than there are separators
split(s, sep) ==
    LET cuts == {i \in DOMAIN s : s[i] = sep}
        cut(k) ==
            IF k = 0 THEN 0
            ELSE IF k > Cardinality(cuts) THEN Len(s) + 1
            ELSE CHOOSE i \in cuts : Cardinality({j \in cuts : j < i}) = k - 1
    IN  [k \in 1..(Cardinality(cuts) + 1) |->
            SubSeq(s, cut(k - 1) + 1, cut(k) - 1)]

RECURSIVE rfind(_, _, _)
\* s.rfind(c, 0, i) + 1: the last position from 1 to i where s has the
\* character c, 0 when it has it nowhere there
rfind(s, c, i) == IF i = 0 \/ s[i] = c THEN i ELSE rfind(s, c, i - 1)

\* s.rsplit(sep, 1)[0]: s up to its last separator, the whole of s when it
\* has none
rsplit_head(s, sep) ==
    LET cut_at(i) == IF i = 0 THEN s ELSE SubSeq(s, 1, i - 1)
    IN  apply(cut_at, rfind(s, sep, Len(s)))

\* s.startswith(prefix)
startswith(s, prefix) ==
    Len(s) >= Len(prefix) /\ SubSeq(s, 1, Len(prefix)) = prefix

\* the characters c with a lower case of one character other than c:
\* <<first, last, step, delta>> stands for chr(c).lower() = chr(c + delta)
\* for c = first, first + step, ... up to last
LowerRuns ==
    {<<65, 90, 1, 32>>, <<192, 214, 1, 32>>, <<216, 222, 1, 32>>,
     <<256, 302, 2, 1>>, <<306, 310, 2, 1>>, <<313, 327, 2, 1>>,
     <<330, 374, 2, 1>>, <<376, 376, 1, -121>>, <<377, 381, 2, 1>>,
     <<385, 385, 1, 210>>, <<386, 388, 2, 1>>, <<390, 390, 1, 206>>,
     <<391, 391, 1, 1>>, <<393, 394, 1, 205>>, <<395, 395, 1, 1>>,
     <<398, 398, 1, 79>>, <<399, 399, 1, 202>>, <<400, 400, 1, 203>>,
     <<401, 401, 1, 1>>, <<403, 403, 1, 205>>, <<404, 404, 1, 207>>,
     <<406, 406, 1, 211>>, <<407, 407, 1, 209>>, <<408, 408, 1, 1>>,
     <<412, 412, 1, 211>>, <<413, 413, 1, 213>>, <<415, 415, 1, 214>>,
     <<416, 420, 2, 1>>, <<422, 422, 1, 218>>, <<423, 423, 1, 1>>,
     <<425, 425, 1, 218>>, <<428, 428, 1, 1>>, <<430, 430, 1, 218>>,
     <<431, 431, 1, 1>>, <<433, 434, 1, 217>>, <<435, 437, 2, 1>>,
     <<439, 439, 1, 219>>, <<440, 440, 1, 1>>, <<444, 444, 1, 1>>,
     <<452, 452, 1, 2>>, <<453, 453, 1, 1>>, <<455, 455, 1, 2>>,
     <<456, 456, 1, 1>>, <<458, 458, 1, 2>>, <<459, 475, 2, 1>>,
     <<478, 494, 2, 1>>, <<497, 497, 1, 2>>, <<498, 500, 2, 1>>,
     <<502, 502, 1, -97>>, <<503, 503, 1, -56>>, <<504, 542, 2, 1>>,
     <<544, 544, 1, -130>>, <<546, 562, 2, 1>>, <<570, 570, 1, 10795>>,
     <<571, 571, 1, 1>>, <<573, 573, 1, -163>>, <<574, 574, 1, 10792>>,
     <<577, 577, 1, 1>>, <<579, 579, 1, -195>>, <<580, 580, 1, 69>>,
     <<581, 581, 1, 71>>, <<582, 590, 2, 1>>, <<880, 882, 2, 1>>,
     <<886, 886, 1, 1>>, <<895, 895, 1, 116>>, <<902, 902, 1, 38>>,
     <<904, 906, 1, 37>>, <<908, 908, 1, 64>>, <<910, 911, 1, 63>>,
     <<913, 929, 1, 32>>, <<931, 939, 1, 32>>, <<975, 975, 1, 8>>,
     <<984, 1006, 2, 1>>, <<1012, 1012, 1, -60>>, <<1015, 1015, 1, 1>>,
     <<1017, 1017, 1, -7>>, <<1018, 1018, 1, 1>>, <<1021, 1023, 1, -130>>,
     <<1024, 1039, 1, 80>>, <<1040, 1071, 1, 32>>, <<1120, 1152, 2, 1>>,
     <<1162, 1214, 2, 1>>, <<1216, 1216, 1, 15>>, <<1217, 1229, 2, 1>>,
     <<1232, 1326, 2, 1>>, <<1329, 1366, 1, 48>>, <<4256, 4293, 1, 7264>>,
     <<4295, 4295, 1, 7264>>, <<4301, 4301, 1, 7264>>,
     <<5024, 5103, 1, 38864>>, <<5104, 5109, 1, 8>>,
     <<7312, 7354, 1, -3008>>, <<7357, 7359, 1, -3008>>,
     <<7680, 7828, 2, 1>>, <<7838, 7838, 1, -7615>>, <<7840, 7934, 2, 1>>,
     <<7944, 7951, 1, -8>>, <<7960, 7965, 1, -8>>, <<7976, 7983, 1, -8>>,
     <<7992, 7999, 1, -8>>, <<8008, 8013, 1, -8>>, <<8025, 8031, 2, -8>>,
     <<8040, 8047, 1, -8>>, <<8072, 8079, 1, -8>>, <<8088, 8095, 1, -8>>,
     <<8104, 8111, 1, -8>>, <<8120, 8121, 1, -8>>, <<8122, 8123, 1, -74>>,
     <<8124, 8124, 1, -9>>, <<8136, 8139, 1, -86>>, <<8140, 8140, 1, -9>>,
     <<8152, 8153, 1, -8>>, <<8154, 8155, 1, -100>>, <<8168, 8169, 1, -8>>,
     <<8170, 8171, 1, -112>>, <<8172, 8172, 1, -7>>,
     <<8184, 8185, 1, -128>>, <<8186, 8187, 1, -126>>,
     <<8188, 8188, 1, -9>>, <<8486, 8486, 1, -7517>>,
     <<8490, 8490, 1, -8383>>, <<8491, 8491, 1, -8262>>,
     <<8498, 8498, 1, 28>>, <<8544, 8559, 1, 16>>, <<8579, 8579, 1, 1>>,
     <<9398, 9423, 1, 26>>, <<11264, 11311, 1, 48>>, <<11360, 11360, 1, 1>>,
     <<11362, 11362, 1, -10743>>, <<11363, 11363, 1, -3814>>,
     <<11364, 11364, 1, -10727>>, <<11367, 11371, 2, 1>>,
     <<11373, 11373, 1, -10780>>, <<11374, 11374, 1, -10749>>,
     <<11375, 11375, 1, -10783>>, <<11376, 11376, 1, -10782>>,
     <<11378, 11378, 1, 1>>, <<11381, 11381, 1, 1>>,
     <<11390, 11391, 1, -10815>>, <<11392, 11490, 2, 1>>,
     <<11499, 11501, 2, 1>>, <<11506, 11506, 1, 1>>, <<42560, 42604, 2, 1>>,
     <<42624, 42650, 2, 1>>, <<42786, 42798, 2, 1>>, <<42802, 42862, 2, 1>>,
     <<42873, 42875, 2, 1>>, <<42877, 42877, 1, -35332>>,
     <<42878, 42886, 2, 1>>, <<42891, 42891, 1, 1>>,
     <<42893, 42893, 1, -42280>>, <<42896, 42898, 2, 1>>,
     <<42902, 42920, 2, 1>>, <<42922, 42922, 1, -42308>>,
     <<42923, 42923, 1, -42319>>, <<42924, 42924, 1, -42315>>,
     <<42925, 42925, 1, -42305>>, <<42926, 42926, 1, -42308>>,
     <<42928, 42928, 1, -42258>>, <<42929, 42929, 1, -42282>>,
     <<42930, 42930, 1, -42261>>, <<42931, 42931, 1, 928>>,
     <<42932, 42946, 2, 1>>, <<42948, 42948, 1, -48>>,
     <<42949, 42949, 1, -42307>>, <<42950, 42950, 1, -35384>>,
     <<42951, 42953, 2, 1>>, <<42960, 42960, 1, 1>>, <<42966, 42968, 2, 1>>,
     <<42997, 42997, 1, 1>>, <<65313, 65338, 1, 32>>,
     <<66560, 66599, 1, 40>>, <<66736, 66771, 1, 40>>,
     <<66928, 66938, 1, 39>>, <<66940, 66954, 1, 39>>,
     <<66956, 66962, 1, 39>>, <<66964, 66965, 1, 39>>,
     <<68736, 68786, 1, 64>>, <<71840, 71871, 1, 32>>,
     <<93760, 93791, 1, 32>>, <<125184, 125217, 1, 34>>}

\* the characters with the property Case_Ignorable, as ranges
CaseIgnorableRanges ==
    {<<39, 39>>, <<46, 46>>, <<58, 58>>, <<94, 94>>, <<96, 96>>,
     <<168, 168>>, <<173, 173>>, <<175, 175>>, <<180, 180>>, <<183, 184>>,
     <<688, 879>>, <<884, 885>>, <<890, 890>>, <<900, 901>>, <<903, 903>>,
     <<1155, 1161>>, <<1369, 1369>>, <<1375, 1375>>, <<1425, 1469>>,
     <<1471, 1471>>, <<1473, 1474>>, <<1476, 1477>>, <<1479, 1479>>,
     <<1524, 1524>>, <<1536, 1541>>, <<1552, 1562>>, <<1564, 1564>>,
     <<1600, 1600>>, <<1611, 1631>>, <<1648, 1648>>, <<1750, 1757>>,
     <<1759, 1768>>, <<1770, 1773>>, <<1807, 1807>>, <<1809, 1809>>,
     <<1840, 1866>>, <<1958, 1968>>, <<2027, 2037>>, <<2042, 2042>>,
     <<2045, 2045>>, <<2070, 2093>>, <<2137, 2139>>, <<2184, 2184>>,
     <<2192, 2193>>, <<2200, 2207>>, <<2249, 2306>>, <<2362, 2362>>,
     <<2364, 2364>>, <<2369, 2376>>, <<2381, 2381>>, <<2385, 2391>>,
     <<2402, 2403>>, <<2417, 2417>>, <<2433, 2433>>, <<2492, 2492>>,
     <<2497, 2500>>, <<2509, 2509>>, <<2530, 2531>>, <<2558, 2558>>,
     <<2561, 2562>>, <<2620, 2620>>, <<2625, 2626>>, <<2631, 2632>>,
     <<2635, 2637>>, <<2641, 2641>>, <<2672, 2673>>, <<2677, 2677>>,
     <<2689, 2690>>, <<2748, 2748>>, <<2753, 2757>>, <<2759, 2760>>,
     <<2765, 2765>>, <<2786, 2787>>, <<2810, 2815>>, <<2817, 2817>>,
     <<2876, 2876>>, <<2879, 2879>>, <<2881, 2884>>, <<2893, 2893>>,
     <<2901, 2902>>, <<2914, 2915>>, <<2946, 2946>>, <<3008, 3008>>,
     <<3021, 3021>>, <<3072, 3072>>, <<3076, 3076>>, <<3132, 3132>>,
     <<3134, 3136>>, <<3142, 3144>>, <<3146, 3149>>, <<3157, 3158>>,
     <<3170, 3171>>, <<3201, 3201>>, <<3260, 3260>>, <<3263, 3263>>,
     <<3270, 3270>>, <<3276, 3277>>, <<3298, 3299>>, <<3328, 3329>>,
     <<3387, 3388>>, <<3393, 3396>>, <<3405, 3405>>, <<3426, 3427>>,
     <<3457, 3457>>, <<3530, 3530>>, <<3538, 3540>>, <<3542, 3542>>,
     <<3633, 3633>>, <<3636, 3642>>, <<3654, 3662>>, <<3761, 3761>>,
     <<3764, 3772>>, <<3782, 3782>>, <<3784, 3789>>, <<3864, 3865>>,
     <<3893, 3893>>, <<3895, 3895>>, <<3897, 3897>>, <<3953, 3966>>,
     <<3968, 3972>>, <<3974, 3975>>, <<3981, 3991>>, <<3993, 4028>>,
     <<4038, 4038>>, <<4141, 4144>>, <<4146, 4151>>, <<4153, 4154>>,
     <<4157, 4158>>, <<4184, 4185>>, <<4190, 4192>>, <<4209, 4212>>,
     <<4226, 4226>>, <<4229, 4230>>, <<4237, 4237>>, <<4253, 4253>>,
     <<4348, 4348>>, <<4957, 4959>>, <<5906, 5908>>, <<5938, 5939>>,
     <<5970, 5971>>, <<6002, 6003>>, <<6068, 6069>>, <<6071, 6077>>,
     <<6086, 6086>>, <<6089, 6099>>, <<6103, 6103>>, <<6109, 6109>>,
     <<6155, 6159>>, <<6211, 6211>>, <<6277, 6278>>, <<6313, 6313>>,
     <<6432, 6434>>, <<6439, 6440>>, <<6450, 6450>>, <<6457, 6459>>,
     <<6679, 6680>>, <<6683, 6683>>, <<6742, 6742>>, <<6744, 6750>>,
     <<6752, 6752>>, <<6754, 6754>>, <<6757, 6764>>, <<6771, 6780>>,
     <<6783, 6783>>, <<6823, 6823>>, <<6832, 6862>>, <<6912, 6915>>,
     <<6964, 6964>>, <<6966, 6970>>, <<6972, 6972>>, <<6978, 6978>>,
     <<7019, 7027>>, <<7040, 7041>>, <<7074, 7077>>, <<7080, 7081>>,
     <<7083, 7085>>, <<7142, 7142>>, <<7144, 7145>>, <<7149, 7149>>,
     <<7151, 7153>>, <<7212, 7219>>, <<7222, 7223>>, <<7288, 7293>>,
     <<7376, 7378>>, <<7380, 7392>>, <<7394, 7400>>, <<7405, 7405>>,
     <<7412, 7412>>, <<7416, 7417>>, <<7468, 7530>>, <<7544, 7544>>,
     <<7579, 7679>>, <<8125, 8125>>, <<8127, 8129>>, <<8141, 8143>>,
     <<8157, 8159>>, <<8173, 8175>>, <<8189, 8190>>, <<8203, 8207>>,
     <<8216, 8217>>, <<8228, 8228>>, <<8231, 8231>>, <<8234, 8238>>,
     <<8288, 8292>>, <<8294, 8303>>, <<8305, 8305>>, <<8319, 8319>>,
     <<8336, 8348>>, <<8400, 8432>>, <<11388, 11389>>, <<11503, 11505>>,
     <<11631, 11631>>, <<11647, 11647>>, <<11744, 11775>>, <<11823, 11823>>,
     <<12293, 12293>>, <<12330, 12333>>, <<12337, 12341>>, <<12347, 12347>>,
     <<12441, 12446>>, <<12540, 12542>>, <<40981, 40981>>, <<42232, 42237>>,
     <<42508, 42508>>, <<42607, 42610>>, <<42612, 42621>>, <<42623, 42623>>,
     <<42652, 42655>>, <<42736, 42737>>, <<42752, 42785>>, <<42864, 42864>>,
     <<42888, 42890>>, <<42994, 42996>>, <<43000, 43001>>, <<43010, 43010>>,
     <<43014, 43014>>, <<43019, 43019>>, <<43045, 43046>>, <<43052, 43052>>,
     <<43204, 43205>>, <<43232, 43249>>, <<43263, 43263>>, <<43302, 43309>>,
     <<43335, 43345>>, <<43392, 43394>>, <<43443, 43443>>, <<43446, 43449>>,
     <<43452, 43453>>, <<43471, 43471>>, <<43493, 43494>>, <<43561, 43566>>,
     <<43569, 43570>>, <<43573, 43574>>, <<43587, 43587>>, <<43596, 43596>>,
     <<43632, 43632>>, <<43644, 43644>>, <<43696, 43696>>, <<43698, 43700>>,
     <<43703, 43704>>, <<43710, 43711>>, <<43713, 43713>>, <<43741, 43741>>,
     <<43756, 43757>>, <<43763, 43764>>, <<43766, 43766>>, <<43867, 43871>>,
     <<43881, 43883>>, <<44005, 44005>>, <<44008, 44008>>, <<44013, 44013>>,
     <<64286, 64286>>, <<64434, 64450>>, <<65024, 65039>>, <<65043, 65043>>,
     <<65056, 65071>>, <<65106, 65106>>, <<65109, 65109>>, <<65279, 65279>>,
     <<65287, 65287>>, <<65294, 65294>>, <<65306, 65306>>, <<65342, 65342>>,
     <<65344, 65344>>, <<65392, 65392>>, <<65438, 65439>>, <<65507, 65507>>,
     <<65529, 65531>>, <<66045, 66045>>, <<66272, 66272>>, <<66422, 66426>>,
     <<67456, 67461>>, <<67463, 67504>>, <<67506, 67514>>, <<68097, 68099>>,
     <<68101, 68102>>, <<68108, 68111>>, <<68152, 68154>>, <<68159, 68159>>,
     <<68325, 68326>>, <<68900, 68903>>, <<69291, 69292>>, <<69446, 69456>>,
     <<69506, 69509>>, <<69633, 69633>>, <<69688, 69702>>, <<69744, 69744>>,
     <<69747, 69748>>, <<69759, 69761>>, <<69811, 69814>>, <<69817, 69818>>,
     <<69821, 69821>>, <<69826, 69826>>, <<69837, 69837>>, <<69888, 69890>>,
     <<69927, 69931>>, <<69933, 69940>>, <<70003, 70003>>, <<70016, 70017>>,
     <<70070, 70078>>, <<70089, 70092>>, <<70095, 70095>>, <<70191, 70193>>,
     <<70196, 70196>>, <<70198, 70199>>, <<70206, 70206>>, <<70367, 70367>>,
     <<70371, 70378>>, <<70400, 70401>>, <<70459, 70460>>, <<70464, 70464>>,
     <<70502, 70508>>, <<70512, 70516>>, <<70712, 70719>>, <<70722, 70724>>,
     <<70726, 70726>>, <<70750, 70750>>, <<70835, 70840>>, <<70842, 70842>>,
     <<70847, 70848>>, <<70850, 70851>>, <<71090, 71093>>, <<71100, 71101>>,
     <<71103, 71104>>, <<71132, 71133>>, <<71219, 71226>>, <<71229, 71229>>,
     <<71231, 71232>>, <<71339, 71339>>, <<71341, 71341>>, <<71344, 71349>>,
     <<71351, 71351>>, <<71453, 71455>>, <<71458, 71461>>, <<71463, 71467>>,
     <<71727, 71735>>, <<71737, 71738>>, <<71995, 71996>>, <<71998, 71998>>,
     <<72003, 72003>>, <<72148, 72151>>, <<72154, 72155>>, <<72160, 72160>>,
     <<72193, 72202>>, <<72243, 72248>>, <<72251, 72254>>, <<72263, 72263>>,
     <<72273, 72278>>, <<72281, 72283>>, <<72330, 72342>>, <<72344, 72345>>,
     <<72752, 72758>>, <<72760, 72765>>, <<72767, 72767>>, <<72850, 72871>>,
     <<72874, 72880>>, <<72882, 72883>>, <<72885, 72886>>, <<73009, 73014>>,
     <<73018, 73018>>, <<73020, 73021>>, <<73023, 73029>>, <<73031, 73031>>,
     <<73104, 73105>>, <<73109, 73109>>, <<73111, 73111>>, <<73459, 73460>>,
     <<78896, 78904>>, <<92912, 92916>>, <<92976, 92982>>, <<92992, 92995>>,
     <<94031, 94031>>, <<94095, 94111>>, <<94176, 94177>>, <<94179, 94180>>,
     <<110576, 110579>>, <<110581, 110587>>, <<110589, 110590>>,
     <<113821, 113822>>, <<113824, 113827>>, <<118528, 118573>>,
     <<118576, 118598>>, <<119143, 119145>>, <<119155, 119170>>,
     <<119173, 119179>>, <<119210, 119213>>, <<119362, 119364>>,
     <<121344, 121398>>, <<121403, 121452>>, <<121461, 121461>>,
     <<121476, 121476>>, <<121499, 121503>>, <<121505, 121519>>,
     <<122880, 122886>>, <<122888, 122904>>, <<122907, 122913>>,
     <<122915, 122916>>, <<122918, 122922>>, <<123184, 123197>>,
     <<123566, 123566>>, <<123628, 123631>>, <<125136, 125142>>,
     <<125252, 125259>>, <<127995, 127999>>, <<917505, 917505>>,
     <<917536, 917631>>, <<917760, 917999>>}

\* the characters with the property Cased that are not Case_Ignorable
CasedRanges ==
    {<<65, 90>>, <<97, 122>>, <<170, 170>>, <<181, 181>>, <<186, 186>>,
     <<192, 214>>, <<216, 246>>, <<248, 442>>, <<444, 447>>, <<452, 659>>,
     <<661, 687>>, <<880, 883>>, <<886, 887>>, <<891, 893>>, <<895, 895>>,
     <<902, 902>>, <<904, 906>>, <<908, 908>>, <<910, 929>>, <<931, 1013>>,
     <<1015, 1153>>, <<1162, 1327>>, <<1329, 1366>>, <<1376, 1416>>,
     <<4256, 4293>>, <<4295, 4295>>, <<4301, 4301>>, <<4304, 4346>>,
     <<4349, 4351>>, <<5024, 5109>>, <<5112, 5117>>, <<7296, 7304>>,
     <<7312, 7354>>, <<7357, 7359>>, <<7424, 7467>>, <<7531, 7543>>,
     <<7545, 7578>>, <<7680, 7957>>, <<7960, 7965>>, <<7968, 8005>>,
     <<8008, 8013>>, <<8016, 8023>>, <<8025, 8025>>, <<8027, 8027>>,
     <<8029, 8029>>, <<8031, 8061>>, <<8064, 8116>>, <<8118, 8124>>,
     <<8126, 8126>>, <<8130, 8132>>, <<8134, 8140>>, <<8144, 8147>>,
     <<8150, 8155>>, <<8160, 8172>>, <<8178, 8180>>, <<8182, 8188>>,
     <<8450, 8450>>, <<8455, 8455>>, <<8458, 8467>>, <<8469, 8469>>,
     <<8473, 8477>>, <<8484, 8484>>, <<8486, 8486>>, <<8488, 8488>>,
     <<8490, 8493>>, <<8495, 8500>>, <<8505, 8505>>, <<8508, 8511>>,
     <<8517, 8521>>, <<8526, 8526>>, <<8544, 8575>>, <<8579, 8580>>,
     <<9398, 9449>>, <<11264, 11387>>, <<11390, 11492>>, <<11499, 11502>>,
     <<11506, 11507>>, <<11520, 11557>>, <<11559, 11559>>, <<11565, 11565>>,
     <<42560, 42605>>, <<42624, 42651>>, <<42786, 42863>>, <<42865, 42887>>,
     <<42891, 42894>>, <<42896, 42954>>, <<42960, 42961>>, <<42963, 42963>>,
     <<42965, 42969>>, <<42997, 42998>>, <<43002, 43002>>, <<43824, 43866>>,
     <<43872, 43880>>, <<43888, 43967>>, <<64256, 64262>>, <<64275, 64279>>,
     <<65313, 65338>>, <<65345, 65370>>, <<66560, 66639>>, <<66736, 66771>>,
     <<66776, 66811>>, <<66928, 66938>>, <<66940, 66954>>, <<66956, 66962>>,
     <<66964, 66965>>, <<66967, 66977>>, <<66979, 66993>>, <<66995, 67001>>,
     <<67003, 67004>>, <<68736, 68786>>, <<68800, 68850>>, <<71840, 71903>>,
     <<93760, 93823>>, <<119808, 119892>>, <<119894, 119964>>,
     <<119966, 119967>>, <<119970, 119970>>, <<119973, 119974>>,
     <<119977, 119980>>, <<119982, 119993>>, <<119995, 119995>>,
     <<119997, 120003>>, <<120005, 120069>>, <<120071, 120074>>,
     <<120077, 120084>>, <<120086, 120092>>, <<120094, 120121>>,
     <<120123, 120126>>, <<120128, 120132>>, <<120134, 120134>>,
     <<120138, 120144>>, <<120146, 120485>>, <<120488, 120512>>,
     <<120514, 120538>>, <<120540, 120570>>, <<120572, 120596>>,
     <<120598, 120628>>, <<120630, 120654>>, <<120656, 120686>>,
     <<120688, 120712>>, <<120714, 120744>>, <<120746, 120770>>,
     <<120772, 120779>>, <<122624, 122633>>, <<122635, 122654>>,
     <<125184, 125251>>, <<127280, 127305>>, <<127312, 127337>>,
     <<127344, 127369>>}

\* chr(c).lower() for a character whose lower case is one character
lower_char(c) ==
    IF c < 128 THEN (IF c \in 65..90 THEN c + 32 ELSE c)
    ELSE LET run(r) == r[1] <= c /\ c <= r[2] /\ (c - r[1]) % r[3] = 0
         IN  IF \E r \in LowerRuns : run(r)
             THEN c + (CHOOSE r \in LowerRuns : run(r))[4]
             ELSE c

\* the GREEK CAPITAL LETTER SIGMA at s[i] ends a word: before it, the
\* case-ignorable characters skipped, comes a cased letter, and after it
\* none does
final_sigma(s, i) ==
    LET ignorable(j) == in_ranges(s[j], CaseIgnorableRanges)
        before == {j \in 1..(i - 1) : ~ignorable(j)}
        after == {j \in (i + 1)..Len(s) : ~ignorable(j)}
        last_before == CHOOSE j \in before : \A k \in before : k <= j
        first_after == CHOOSE j \in after : \A k \in after : j <= k
    IN  /\ before # {}
        /\ in_ranges(s[last_before], CasedRanges)
        /\ ~(after # {} /\ in_ranges(s[first_after], CasedRanges))

\* the characters s[i] gives to s.lower(): one, but for U+0130, LATIN CAPITAL
\* LETTER I WITH DOT ABOVE, which gives "i" and U+0307; a capital sigma gives
\* the final or the other small sigma
lower_at(s, i) ==
    IF s[i] = 931 THEN <<(IF final_sigma(s, i) THEN 962 ELSE 963)>>
    ELSE IF s[i] = 304 THEN <<105, 775>>
    ELSE <<lower_char(s[i])>>

RECURSIVE lower_from(_, _)
\* s[i:].lower()
lower_from(s, i) ==
    IF i > Len(s) THEN <<>> ELSE lower_at(s, i) \o lower_from(s, i + 1)

\* s.lower(); a str of ASCII characters with no capital among them (65..90)
\* is its own lower case
lower(s) ==
    IF \A i \in DOMAIN s : s[i] < 65 \/ (90 < s[i] /\ s[i] < 128) THEN s
    ELSE IF \A i \in DOMAIN s : s[i] < 128
    THEN [i \in DOMAIN s |-> lower_char(s[i])]
    ELSE lower_from(s, 1)

\* the code point of the digit zero of each script: chr(z + k) is its
\* decimal digit k, for k in 0..9
DecimalZeros ==
    {48, 1632, 1776, 1984, 2406, 2534, 2662, 2790, 2918, 3046, 3174, 3302,
     3430, 3558, 3664, 3792, 3872, 4160, 4240, 6112, 6160, 6470, 6608, 6784,
     6800, 6992, 7088, 7232, 7248, 42528, 43216, 43264, 43472, 43504, 43600,
     44016, 65296, 66720, 68912, 69734, 69872, 69942, 70096, 70384, 70736,
     70864, 71248, 71360, 71472, 71904, 72016, 72784, 73040, 73120, 92768,
     92864, 93008, 120782, 120792, 120802, 120812, 120822, 123200, 123632,
     125264, 130032}

\* the characters str.isdigit() accepts and str.isdecimal() does not
\* (superscripts, circled digits, ...), as ranges <<first, last>>
OtherDigitRanges ==
    {<<178, 179>>, <<185, 185>>, <<4969, 4977>>, <<6618, 6618>>,
     <<8304, 8304>>, <<8308, 8313>>, <<8320, 8329>>, <<9312, 9320>>,
     <<9332, 9340>>, <<9352, 9360>>, <<9450, 9450>>, <<9461, 9469>>,
     <<9471, 9471>>, <<10102, 10110>>, <<10112, 10120>>, <<10122, 10130>>,
     <<68160, 68163>>, <<69216, 69224>>, <<69714, 69722>>,
     <<127232, 127242>>}

\* chr(c).isdecimal()
isdecimal_char(c) ==
    IF c < 128 THEN c \in 48..57
    ELSE \E z \in DecimalZeros : z <= c /\ c <= z + 9

\* chr(c).isdigit()
isdigit_char(c) == isdecimal_char(c) \/ in_ranges(c, OtherDigitRanges)

\* the value int() gives a decimal digit
DigitValue(c) ==
    IF c < 128 THEN c - 48
    ELSE c - (CHOOSE z \in DecimalZeros : z <= c /\ c <= z + 9)

RECURSIVE lstrip_minus(_)
\* s.lstrip("-"); "-" is 45
lstrip_minus(s) ==
    IF s # <<>> /\ Head(s) = 45 THEN lstrip_minus(Tail(s)) ELSE s

\* s.isdigit()
isdigit(s) == s # <<>> /\ \A i \in DOMAIN s : isdigit_char(s[i])

RECURSIVE digits_value(_, _)
\* the number the decimal digits of s stand for, after the digits of acc
digits_value(s, acc) ==
    IF s = <<>> THEN acc ELSE digits_value(Tail(s), 10 * acc + DigitValue(Head(s)))

\* int() of a str without white space around: [ok, val], ok FALSE when int
\* raises ValueError.  The str is at most one sign and decimal digits, with
\* single underscores allowed between two digits, and at most 4300 digits
\* (sys.get_int_max_str_digits())
int_stripped(t) ==
    LET signed == t # <<>> /\ Head(t) \in {43, 45}   \* "+", "-"
        body == IF signed THEN Tail(t) ELSE t
        well_formed ==
            /\ body # <<>>
            /\ \A i \in DOMAIN body : isdecimal_char(body[i]) \/ body[i] = 95
            /\ body[1] # 95                          \* "_"
            /\ body[Len(body)] # 95
            /\ \A i \in 1..(Len(body) - 1) : ~(body[i] = 95 /\ body[i + 1] = 95)
        digits == SelectSeq(body, LAMBDA c : c # 95)
        magnitude == digits_value(digits, 0)
    IN  IF ~well_formed \/ Len(digits) > 4300 THEN [ok |-> FALSE, val |-> 0]
        ELSE IF signed /\ Head(t) = 45 THEN [ok |-> TRUE, val |-> 0 - magnitude]
        ELSE [ok |-> TRUE, val |-> magnitude]

\* int(s) of a str s
int_str(s) == apply(int_stripped, strip_chars(s, IntWhitespaceCodes))

(***************************************************************************)
(* Channel references: an int or a str.                                    *)
(***************************************************************************)
\* int(chat_ref): [ok, val]
int_of(ref) ==
    IF ref.kind = "int" THEN [ok |-> TRUE, val |-> ref.n] ELSE int_str(ref.s)

\* bot.py:248: isinstance(chat_ref, str) and not chat_ref.lstrip("-").isdigit()
resolve_needs_lookup(ref) == ref.kind = "str" /\ ~isdigit(lstrip_minus(ref.s))

\* the channels of the model, and the one the handle @h stands for
NumericChat == -1001
HandleChat == -1002
Handle == StrVal(str("@h"))

\* the chat the handle names once it has been given to another chat
MovedChat == -1003

\* app_1.get_chat(chat_ref).id, when the lookup succeeds: the chat the
\* handle names at the time of the call
get_chat_id(ref) == client.handle

\* what _resolve_chat_id returns for the [ok, val] of int(chat_ref): the int,
\* or None when int raised (bot.py:251-254)
int_or_none(r) == IF r.ok THEN IntVal(r.val) ELSE None

(***************************************************************************)
(* Files and media.  A path is a str, and a file is named by the path the  *)
(* program uses for it.                                                    *)
(***************************************************************************)
\* bot.py:193: s.startswith(("http://", "https://"))
HttpPrefixes == {str("http://"), str("https://")}
is_url(s) == \E prefix \in HttpPrefixes : startswith(s, prefix)

\* os.path.isabs(path): the path starts with "/" (47)
isabs(path) == startswith(path, <<47>>)

RECURSIVE name_end(_, _)
\* where the name of a path ends: the last position from 1 to i of a
\* component of s that is neither empty nor ".", 0 when there is none; the
\* components are the pieces between the "/" (47), and "." is 46
name_end(s, i) ==
    IF i = 0 THEN 0
    ELSE IF \/ s[i] = 47
            \/ /\ s[i] = 46
               /\ i = 1 \/ s[i - 1] = 47
               /\ i = Len(s) \/ s[i + 1] = 47
    THEN name_end(s, i - 1)
    ELSE i

\* Path(s).name: the last component of s that is neither empty nor "."
path_name(s) ==
    LET upto(last) ==
            IF last = 0 THEN <<>> ELSE SubSeq(s, rfind(s, 47, last) + 1, last)
    IN  apply(upto, name_end(s, Len(s)))

\* Path(s).suffix: the name from its last dot on, when that dot is neither
\* the first nor the last character of the name
path_suffix(s) ==
    LET from_dot(name) ==
            LET at(dot) == IF 1 < dot /\ dot < Len(name)
                           THEN SubSeq(name, dot, Len(name))
                           ELSE <<>>
            IN  apply(at, rfind(name, 46, Len(name)))
    IN  apply(from_dot, path_name(s))

\* the eight characters tempfile gives the n-th temporary file of the
\* program: drawn at random from a-z, 0-9 and "_", here the digits of n
random_name(n) == [i \in 1..8 |-> 48 + ((n \div (10 ^ (8 - i))) % 10)]

\* bot.py:209: prefix="ap_dl_"
TempPrefix == str("ap_dl_")

\* tempfile.mkstemp(prefix="ap_dl_", suffix=suffix) in the directory
\* tempfile.gettempdir(): the path of the n-th temporary file
mkstemp(tmpdir, n, suffix) ==
    tmpdir \o <<47>> \o TempPrefix \o random_name(n) \o suffix

\* the suffixes the conversions give their files
JpgSuffix == str(".jpg")
TgJpgSuffix == str("_tg.jpg")
TgMp4Suffix == str("_tg.mp4")

\* bot.py:139: path.rsplit(".", 1)[0] + ".jpg"; "." is 46
jpg_of(path) == rsplit_head(path, 46) \o JpgSuffix
\* bot.py:153: path.rsplit(".", 1)[0] + "_tg.jpg"
tg_jpg_of(path) == rsplit_head(path, 46) \o TgJpgSuffix
\* bot.py:172: path.rsplit(".", 1)[0] + "_tg.mp4"
tg_mp4_of(path) == rsplit_head(path, 46) \o TgMp4Suffix

\* the type of a post that is sent without a media, and the types of post
\* that are sent with one
Text == str("text")
Photo == str("photo")
Video == str("video")
Voice == str("voice")
Document == str("document")
MediaTypes == {Photo, Video, Voice, Document}

\* bot.py:678: ptype in ("photo", "video", "voice", "document")
needs_media(ptype) == ptype \in MediaTypes

\* bot.py:716-721: for p in (conv_path, temp_path): remove p if it is set
\* and the file exists
cleanup(present, conv_path, temp_path) ==
    present \ {p.s : p \in {q \in {conv_path, temp_path} : truthy(q)}}

(***************************************************************************)
(* config.py and MESSAGES.                                                 *)
(***************************************************************************)
\* an item of MESSAGES: "type" and "media" are a str or None
Post(name, ptype, media) == [name |-> name, type |-> ptype, media |-> media]
NoPost == Post("", None, None)

\* two posts of MESSAGES: a text (bot.py:262-267) and a photo behind a URL
\* (bot.py:286-291)
MESSAGES ==
    <<Post("post1", StrVal(Text), None),
      Post("post4", StrVal(Photo),
           StrVal(str("http://my-privatelink.com/wp-content/uploads/2025/12/IMG_7602.jpg")))>>

\* the dict _FR_WEEKDAYS, bot.py:92-95: the weekday number of a French
\* day name
_FR_WEEKDAYS ==
    str("lundi") :> 0 @@ str("mardi") :> 1 @@ str("mercredi") :> 2 @@
    str("jeudi") :> 3 @@ str("vendredi") :> 4 @@ str("samedi") :> 5 @@
    str("dimanche") :> 6

\* a POSTn_SCHEDULE of config.py: the pair (day_str, hhmm) of two strs
Schedule(day_str, hhmm) == [present |-> TRUE, day |-> day_str, hhmm |-> hhmm]

\* the str "hh:mm" config.py writes for hour and minute, two digits each
HHMM(hour, minute) ==
    <<48 + (hour \div 10), 48 + (hour % 10), 58,
      48 + (minute \div 10), 48 + (minute % 10)>>

\* _resolve_schedule_tuple: [raised, wd, h, m].  It raises ValueError when
\* the variable is missing, when day_str.strip().lower() is no key of
\* _FR_WEEKDAYS, when hhmm.strip().split(":") has not two pieces and when
\* int() raises on a piece
resolve_schedule_tuple(entry) ==
    LET raise == [raised |-> TRUE, wd |-> 0, h |-> 0, m |-> 0]
        \* map(int, pieces)
        ints_of(pieces) == [k \in DOMAIN pieces |-> int_str(pieces[k])]
        tuple_of(read) ==
            IF read.day_key \notin DOMAIN _FR_WEEKDAYS THEN raise
            ELSE IF Len(read.ints) # 2 \/ ~read.ints[1].ok \/ ~read.ints[2].ok
            THEN raise
            ELSE [raised |-> FALSE, wd |-> _FR_WEEKDAYS[read.day_key],
                  h |-> read.ints[1].val, m |-> read.ints[2].val]
    IN  IF ~entry.present THEN raise
        ELSE apply(tuple_of,
                   [day_key |-> lower(strip(entry.day)),
                    ints |-> apply(ints_of, split(strip(entry.hhmm), 58))])

\* the values of config.CHANNEL_IDS the model starts from
ChannelLists == {<<>>, <<Handle, IntVal(NumericChat)>>, <<IntVal(NumericChat), Handle>>}

Config(channel_ids) ==
    [CHANNEL_IDS |-> channel_ids,
     TIMEZONE |-> FixedZone,
     SCHEDULE |-> <<Schedule(str("lundi"), HHMM(9, 0)),
                    Schedule(str("Lundi"), HHMM(9, 10))>>]

\* the clock at startup, 08:50:00 local time: of the Monday in the zone
\* that keeps its offset, of the Saturday before the change in a zone that
\* changes it
StartClock(zone) ==
    (IF zone = FixedZone THEN 0 ELSE 5 * DaySeconds) + 8 * 3600 + 50 * 60
        - wall_utcoffset(zone, 5 * DaySeconds)
StartTime == StartClock(FixedZone)

\* the clock runs for HorizonDays days from startup
MaxTime == StartClock(cfg.TIMEZONE) + HorizonDays * DaySeconds

(***************************************************************************)
(* Tasks.  main() creates one _autopost_worker per post and the            *)
(* _autodelete_worker; the handler of /force_post_index runs the same      *)
(* delivery loop.  A task's pc is the await it is suspended at, or, while  *)
(* `running` names it, the line it is about to run.                        *)
(***************************************************************************)
Workers == {"w1", "w2"}
Deliverers == Workers \cup {"force"}
ItemOf(t) == IF t = "w1" THEN 1 ELSE 2

NewTask(pc) ==
    [pc |-> pc, post |-> NoPost, wd |-> 0, h |-> 0, m |-> 0, wake |-> 0,
     k |-> 0, sent |-> 0,
     \* the locals of _send_autopost_to_chat; a str that has no value yet
     \* is kept empty
     ptype |-> <<>>,
     chat_id |-> None, media_path |-> None, temp_path |-> None,
     conv_path |-> None, resp |-> None, mid |-> None,
     \* the locals of the loop over CHANNEL_IDS
     delete_at |-> 0, chat_id2 |-> None,
     \* history of the delivery in progress: the channel-client calls it
     \* made, what the media fetch gave, when it returned, the rows the loop
     \* body inserted, and what made it return None
     lookups |-> 0, sends |-> 0, fetched |-> "n/a", returned_at |-> 0,
     rows_before |-> 0, inserted |-> 0, cause |-> "none",
     \* history of the firing in progress: what each delivery returned, and
     \* the id of the row each pass of the loop inserted (0 for none)
     \* and the send_* calls made
     results |-> <<>>, row_ids |-> <<>>, firing_sends |-> 0,
     \* history: the files the current delivery has written, whether the
     \* task itself raised an exception nothing caught, and when it ended
     created |-> {}, raised |-> FALSE, ended_at |-> 0,
     \* history: the schedule of the item was edited since the task read it
     stale |-> FALSE]

NewReaper == [pc |-> "poll", rows |-> <<>>, i |-> 0, wake |-> 0, now_ts |-> 0,
              table |-> {}, raised |-> FALSE]

\* the channels at startup: no message yet, the handle names HandleChat;
\* next_id holds the next message id of each chat that has a message
NewClient == [next_id |-> <<>>, visible |-> {}, handle |-> HandleChat]

\* the id the channel client gives the next message of chat c
next_message_id(c) ==
    IF c \in DOMAIN client.next_id THEN client.next_id[c] ELSE 1

\* tempfile.gettempdir()
TmpDir == str("/tmp")

\* the disk at startup: no file of the program, none made by mkstemp
NewFiles(tmpdir) == [present |-> {}, made |-> 0, tmpdir |-> tmpdir]

InitProgram(configs) ==
    /\ cfg \in configs
    /\ now = StartClock(cfg.TIMEZONE)
    /\ running = "none"
    /\ task = [t \in Deliverers |->
                 IF t \in Workers
                 THEN [NewTask("start") EXCEPT !.post = MESSAGES[ItemOf(t)]]
                 ELSE NewTask("idle")]
    /\ reaper = NewReaper
    /\ client = NewClient
    /\ files = NewFiles(TmpDir)
    /\ published = {}
    /\ retractions = {}
    /\ budget = [faults |-> 0, delays |-> 0, forces |-> 0]

\* config.py as it is: every POSTn_SCHEDULE present and well formed
InitSys == InitProgram({Config(ids) : ids \in ChannelLists})

\* the program's variables while another specification runs
SysIdle ==
    /\ now = StartTime
    /\ running = "none"
    /\ task = [t \in Deliverers |-> NewTask("idle")]
    /\ reaper = NewReaper
    /\ client = NewClient
    /\ files = NewFiles(TmpDir)
    /\ cfg = Config(<<>>)
    /\ published = {}
    /\ retractions = {}
    /\ budget = [faults |-> 0, delays |-> 0, forces |-> 0]

(***************************************************************************)
(* _autopost_worker, bot.py:725-751.                                       *)
(***************************************************************************)
\* mutant: the list is gone through from its end
Ref_reversed(t) == cfg.CHANNEL_IDS[Len(cfg.CHANNEL_IDS) + 1 - task[t].k]

\* bot.py:739 (785): raw_ref, the k-th element of config.CHANNEL_IDS
Ref(t) == cfg.CHANNEL_IDS[task[t].k]

\* bot.py:840-845: each worker and the reaper is a task of its own made by
\* asyncio.create_task; an exception that leaves the coroutine of task t
\* ends task t and is kept in it, the event loop goes on with the others
killed_by(t, u) == u = t

\* the tasks and the reaper once task t has raised
tasks_after_raise(t) ==
    [u \in Deliverers |->
        IF killed_by(t, u)
        THEN [task[u] EXCEPT !.pc = "dead", !.raised = @ \/ u = t,
                             !.ended_at = now]
        ELSE task[u]]
reaper_after_raise(t) ==
    IF killed_by(t, "reaper")
    THEN [reaper EXCEPT !.pc = "dead", !.raised = @ \/ t = "reaper"]
    ELSE reaper

\* bot.py:727-728: the task starts and reads its schedule
WorkerStart(t) ==
    /\ running = "none"
    /\ task[t].pc = "start"
    /\ LET r == resolve_schedule_tuple(cfg.SCHEDULE[ItemOf(t)])
       IN  IF r.raised
           THEN /\ task' = tasks_after_raise(t)
                /\ reaper' = reaper_after_raise(t)
                /\ UNCHANGED running
           ELSE /\ task' = [task EXCEPT ![t].pc = "arm", ![t].wd = r.wd,
                                        ![t].h = r.h, ![t].m = r.m]
                /\ running' = t
                /\ UNCHANGED reaper
    /\ UNCHANGED <<ledgerVars, op, wk, now, client, files, cfg,
                   published, retractions, budget>>

\* the whole seconds asyncio.sleep(max(1, wait_s)) lasts on the clock
sleep_seconds(wait_s) ==
    max_1(wait_s).secs + (IF max_1(wait_s).us > 0 THEN 1 ELSE 0)

\* bot.py:731-733: compute the wait and go to sleep
WorkerArm(t) ==
    /\ running = t
    /\ task[t].pc = "arm"
    /\ LET wait_s == seconds_until_next_weekly(now_local(now), task[t].wd,
                                               task[t].h, task[t].m)
       IN  IF wait_s = ValueError
           THEN \* bot.py:226: the exception leaves the worker
                /\ task' = tasks_after_raise(t)
                /\ reaper' = reaper_after_raise(t)
           ELSE /\ task' = [task EXCEPT ![t].pc = "sleep",
                                        ![t].wake = now + sleep_seconds(wait_s)]
                /\ UNCHANGED reaper
    /\ running' = "none"
    /\ UNCHANGED <<ledgerVars, op, wk, now, client, files, cfg,
                   published, retractions, budget>>

\* bot.py:735 (781): `not getattr(config, "CHANNEL_IDS", None)`: the list is
\* missing (None) or empty; <<>> stands for both
no_channels(channel_ids) == channel_ids = <<>>

\* mutant: the worker returns when it skips a firing
skip_returns == "dead"

\* bot.py:735-736 and 750-751: the branch of the skip only logs, the
\* iteration goes on to the reading of the schedule
skip_goes_to == "reread"

\* bot.py:735-739: the sleep is over; skip the firing when CHANNEL_IDS is
\* empty or missing, else start the loop over CHANNEL_IDS
WorkerWake(t) ==
    /\ running = "none"
    /\ task[t].pc = "sleep"
    /\ now >= task[t].wake
    /\ IF no_channels(cfg.CHANNEL_IDS)
       THEN task' = [task EXCEPT ![t].pc = skip_goes_to]
       ELSE task' = [task EXCEPT ![t].pc = "deliver", ![t].k = 1,
                                 ![t].sent = 0, ![t].results = <<>>]
    /\ running' = t
    /\ UNCHANGED <<ledgerVars, op, wk, now, reaper, client, files, cfg,
                   published, retractions, budget>>

\* mutant: the schedule read at startup is kept
schedule_kept(t) ==
    [raised |-> FALSE, wd |-> task[t].wd, h |-> task[t].h, m |-> task[t].m]

\* bot.py:751: wd, h, m = _resolve_schedule_tuple(post_cfg["schedule_var"]),
\* which reads the variable of config as it is now
schedule_reread(t) == resolve_schedule_tuple(cfg.SCHEDULE[ItemOf(t)])

\* bot.py:751: read the schedule again for the next iteration; the locals of
\* the firing are dead
WorkerReread(t) ==
    /\ running = t
    /\ task[t].pc = "reread"
    /\ LET r == schedule_reread(t)
       IN  IF r.raised
           THEN /\ task' = tasks_after_raise(t)
                /\ reaper' = reaper_after_raise(t)
                /\ running' = "none"
           ELSE /\ task' = [task EXCEPT ![t] =
                              [NewTask("arm") EXCEPT !.post = task[t].post,
                                                     !.wd = r.wd, !.h = r.h,
                                                     !.m = r.m]]
                /\ UNCHANGED <<running, reaper>>
    /\ UNCHANGED <<ledgerVars, op, wk, now, client, files, cfg,
                   published, retractions, budget>>

(***************************************************************************)
(* force_post_index_handler, bot.py:771-794.                               *)
(***************************************************************************)
\* seq[idx] in Python: from 0, and from the end when idx is negative
py_index_ok(s, idx) == idx >= 0 - Len(s) /\ idx < Len(s)
py_index(s, idx) == IF idx >= 0 THEN s[idx + 1] ELSE s[Len(s) + idx + 1]

\* the indexes a /force_post_index command of the model names
ForceIndexes == (0 - 1)..Len(MESSAGES)

\* bot.py:773-784: the command arrives; idx is the index it names
ForceCommand(idx) ==
    /\ running = "none"
    /\ task["force"].pc = "idle"
    /\ Spent < MaxEvents
    /\ budget' = [budget EXCEPT !.forces = @ + 1]
    /\ IF ~py_index_ok(MESSAGES, idx) \/ no_channels(cfg.CHANNEL_IDS)
       THEN \* "Index invalide." or "Aucun CHANNEL_IDS dans config.py."
            /\ task' = [task EXCEPT !["force"] =
                          [NewTask("reply") EXCEPT !.results = <<>>]]
            /\ UNCHANGED running
       ELSE /\ task' = [task EXCEPT !["force"] =
                          [NewTask("deliver") EXCEPT !.post = py_index(MESSAGES, idx),
                                                     !.k = 1]]
            /\ running' = "force"
    /\ UNCHANGED <<ledgerVars, op, wk, now, reaper, client, files, cfg,
                   published, retractions>>

\* bot.py:794: message.reply_text returned
ForceReplied ==
    /\ running = "none"
    /\ task["force"].pc = "reply"
    /\ task' = [task EXCEPT !["force"] = NewTask("idle")]
    /\ UNCHANGED <<ledgerVars, op, wk, now, running, reaper, client, files,
                   cfg, published, retractions, budget>>

(***************************************************************************)
(* _send_autopost_to_chat, bot.py:658-722, and the loop body that calls    *)
(* it, bot.py:739-747 and 785-793.                                         *)
(***************************************************************************)
\* bot.py:663: ptype = (post_cfg.get("type") or "text").lower()
ptype_of(post_cfg) ==
    lower(IF truthy(post_cfg.type) THEN post_cfg.type.s ELSE Text)

\* bot.py:663-672: the call starts; read the type of the post and resolve
\* the reference.  A str that is not digits after its minus signs is looked
\* up with get_chat (an await); anything else is cast with int(), and the
\* call returns None when the cast raises.
BeginDelivery(t) ==
    /\ running = t
    /\ task[t].pc = "deliver"
    /\ LET fresh == [task[t] EXCEPT
                        !.ptype = ptype_of(task[t].post),
                        !.chat_id = None, !.media_path = None,
                        !.temp_path = None, !.conv_path = None,
                        !.resp = None, !.mid = None, !.chat_id2 = None,
                        !.delete_at = 0, !.lookups = 0, !.sends = 0,
                        !.fetched = "n/a", !.returned_at = 0,
                        !.rows_before = seq, !.inserted = 0,
                        !.cause = "none", !.created = {}]
           chat_id == int_or_none(int_of(Ref(t)))
       IN  IF resolve_needs_lookup(Ref(t))
           THEN /\ task' = [task EXCEPT ![t] =
                              [fresh EXCEPT !.pc = "lookup", !.lookups = 1]]
                /\ running' = "none"
           ELSE /\ task' = [task EXCEPT ![t] =
                              IF chat_id # None
                              THEN [fresh EXCEPT !.pc = "media",
                                                 !.chat_id = chat_id]
                              ELSE [fresh EXCEPT !.pc = "returned",
                                                 !.cause = "resolve",
                                                 !.returned_at = now]]
                /\ UNCHANGED running
    /\ UNCHANGED <<ledgerVars, op, wk, now, reaper, client, files, cfg,
                   published, retractions, budget>>

\* bot.py:249-254 and 669-672: get_chat returns the chat or raises
LookupReturn(t, ok) ==
    /\ running = "none"
    /\ task[t].pc = "lookup"
    /\ ~ok => Spent < MaxEvents
    /\ budget' = [budget EXCEPT !.faults = IF ok THEN @ ELSE @ + 1]
    /\ task' = [task EXCEPT ![t] =
                  IF ok
                  THEN [@ EXCEPT !.pc = "media",
                                 !.chat_id = IntVal(get_chat_id(Ref(t)))]
                  ELSE [@ EXCEPT !.pc = "returned", !.cause = "resolve",
                                 !.returned_at = now]]
    /\ running' = t
    /\ UNCHANGED <<ledgerVars, op, wk, now, reaper, client, files, cfg,
                   published, retractions>>

\* the dict m of _guess_ext_from_content_type: the suffix of a media type
m_suffix ==
    str("image/jpeg") :> str(".jpg") @@
    str("image/png") :> str(".png") @@
    str("image/webp") :> str(".webp") @@
    str("image/avif") :> str(".avif") @@
    str("image/heic") :> str(".heic") @@
    str("image/heif") :> str(".heif") @@
    str("video/mp4") :> str(".mp4") @@
    str("video/quicktime") :> str(".mov")

\* _guess_ext_from_content_type, bot.py:103-116: the suffix of the media
\* type ct.split(";")[0].strip().lower(), the default for an empty header
\* and for a media type that is no key of m
guess_ext_from_content_type(ct, default) ==
    LET \* m.get(key, default)
        get(key) == IF key \in DOMAIN m_suffix THEN m_suffix[key] ELSE default
    IN  IF ct = <<>> THEN default
        ELSE apply(get, lower(strip(split(ct, 59)[1])))

\* what a download does: "error", urlopen raises; "broken", resp.read()
\* raises after mkstemp made the file; "small", fewer than 1024 bytes were
\* written; "ok"
Downloads == {"ok", "small", "broken", "error"}

\* _download_if_url, bot.py:187-220, called at bot.py:679: the path it
\* returns and the files it made.  For a URL `got` is what the download
\* does and suffix what bot.py:208 makes of the answer's Content-Type
\* header and of the URL, _guess_ext_from_content_type(ct, Path(s).suffix);
\* the file is the next temporary file of the disk
download_if_url(maybe_url, disk, got, suffix) ==
    LET s == maybe_url.s
        temp_path == mkstemp(disk.tmpdir, disk.made + 1, suffix)
    IN  IF ~truthy(maybe_url) THEN [path |-> None, created |-> {}]
        ELSE IF ~is_url(s) THEN [path |-> StrVal(s), created |-> {}]
        ELSE IF got = "error" THEN [path |-> None, created |-> {}]
        ELSE IF got \in {"small", "broken"}
        THEN [path |-> None, created |-> {temp_path}]
        ELSE [path |-> StrVal(temp_path), created |-> {temp_path}]

\* the Content-Type headers the servers of the model answer with: none,
\* the type of the URL's suffix, another image type with a parameter, and
\* a type _guess_ext_from_content_type does not know
ContentTypes ==
    {<<>>, str("image/jpeg"), str("Image/WebP; q=1"), str("text/html")}

\* mutant: a missing media is not noticed
not_media_path_never(media_path) == FALSE

\* bot.py:680: `if not media_path:`
not_media_path(media_path) == ~truthy(media_path)

\* the media of the post is fetched from a remote server
is_remote(post) ==
    /\ needs_media(ptype_of(post))
    /\ truthy(post.media)
    /\ is_url(post.media.s)

\* bot.py:193-206: the request for a remote media is sent with
\* urllib.request.urlopen, a blocking call inside the coroutine: the task
\* waits for the server without giving the event loop back
UrlOpen(t) ==
    /\ running = t
    /\ task[t].pc = "media"
    /\ needs_media(task[t].ptype)
    /\ truthy(task[t].post.media)
    /\ is_url(task[t].post.media.s)
    /\ task' = [task EXCEPT ![t].pc = "download"]
    /\ UNCHANGED <<ledgerVars, op, wk, now, running, reaper, client, files,
                   cfg, published, retractions, budget>>

\* bot.py:206: urlopen(req, timeout=120, ...): the seconds a socket
\* operation of the download waits before it raises
UrlTimeout == 120

\* bot.py:677-685: fetch the media of a post that needs one; for a remote
\* media this is the server's answer coming back (bot.py:206-220): `got`,
\* one of gots, is what the download does, ct, one of cts, the Content-Type
\* header of the answer ("" when there is none), and secs the seconds the
\* call has taken.  urlopen and read do not await: the event loop runs
\* nothing else meanwhile.  The plain answer is the one the post expects, a
\* download that succeeds into a file with the suffix of the URL; any other
\* answer is an event of the environment.
fetch_media(t, cts, gots, secs) ==
    /\ running = t
    /\ task[t].pc \in {"media", "download"}
    /\ LET post == task[t].post
           ptype == task[t].ptype
           remote ==
               needs_media(ptype) /\ truthy(post.media) /\ is_url(post.media.s)
           \* bot.py:208: Path(s).suffix
           url_suffix == path_suffix(post.media.s)
       IN  /\ task[t].pc = (IF remote THEN "download" ELSE "media")
           /\ IF ~needs_media(ptype)
              THEN /\ task' = [task EXCEPT ![t].pc = "call_send"]
                   /\ UNCHANGED <<files, budget>>
              ELSE \E ct \in (IF remote THEN cts ELSE {<<>>}) :
                   LET suffix ==
                           IF remote
                           THEN guess_ext_from_content_type(ct, url_suffix)
                           ELSE <<>>
                   IN
                   \E got \in (IF remote THEN gots ELSE {"ok"}) :
                   LET dl == download_if_url(post.media, files, got, suffix)
                       plain == got = "ok" /\ (remote => suffix = url_suffix)
                   IN  /\ ~plain => Spent < MaxEvents
                       /\ budget' = [budget EXCEPT
                                       !.faults = IF plain THEN @ ELSE @ + 1]
                       /\ files' = [files EXCEPT
                                       !.present = @ \cup dl.created,
                                       !.made = @ + Cardinality(dl.created)]
                       /\ task' = [task EXCEPT ![t] =
                             IF not_media_path(dl.path)
                             THEN \* bot.py:680-682, the finally of 715-721
                                  [@ EXCEPT !.pc = "returned",
                                            !.cause = "media",
                                            !.fetched = "null",
                                            !.returned_at = now + secs,
                                            !.created = dl.created]
                             ELSE [@ EXCEPT !.pc = "convert",
                                            !.created = dl.created,
                                            !.fetched = IF dl.path = None
                                                        THEN "null" ELSE "ok",
                                            !.media_path = dl.path,
                                            !.temp_path =
                                                IF isabs(dl.path.s) THEN dl.path
                                                ELSE None]]
    /\ now' = now + secs
    /\ UNCHANGED <<ledgerVars, op, wk, running, reaper, client, cfg,
                   published, retractions>>

\* the answer of the server, or the lack of one, comes within the second
FetchMedia(t, cts) ==
    /\ running = t
    /\ fetch_media(t, cts, Downloads, 0)

\* bot.py:206-211 and 218-220: the server of a remote media does not answer;
\* urlopen raises after UrlTimeout seconds, or read does, the temporary
\* file made; the clock has gone on meanwhile and the event loop has run
\* nothing
FetchTimeout(t, cts) ==
    /\ is_remote(task[t].post)
    /\ now + UrlTimeout <= MaxTime
    /\ fetch_media(t, cts, {"error", "broken"}, UrlTimeout)

\* bot.py:206-211, 131-157 and 181: urlopen, read, Pillow and ffmpeg do not
\* await.  A second of the clock goes by while task t is inside such a call:
\* the event loop runs nothing, whatever timer falls due
Blocked(t) ==
    /\ running = t
    /\ task[t].pc \in {"download", "convert"}
    /\ Spent < MaxEvents
    /\ now + 1 <= MaxTime
    /\ now' = now + 1
    /\ budget' = [budget EXCEPT !.delays = @ + 1]
    /\ UNCHANGED <<ledgerVars, op, wk, running, task, reaper, client, files,
                   cfg, published, retractions>>

\* what a conversion does: "same" gives the path back (nothing to do, or the
\* conversion failed before it wrote), "jpg" writes a JPEG next to a
\* WebP/HEIC/HEIF/AVIF image, "tg" writes the clamped image or the
\* normalised video; "jpg_failed" and "tg_failed" are the same conversions
\* where rgb.save or ffmpeg raises after it began to write its output
ConversionOutcomes == {"same", "jpg", "tg", "jpg_failed", "tg_failed"}
Conversions(ptype) ==
    IF ptype = Photo THEN ConversionOutcomes
    ELSE IF ptype = Video THEN {"same", "tg", "tg_failed"}
    ELSE {"same"}

\* bot.py:139, 153 and 172: `out`, the file the conversion writes
conversion_output(ptype, path, how) ==
    IF ptype = Video THEN tg_mp4_of(path)
    ELSE IF how \in {"jpg", "jpg_failed"} THEN jpg_of(path)
    ELSE tg_jpg_of(path)

\* _convert_image_if_needed, bot.py:118-161, and _convert_video_if_needed,
\* bot.py:166-185: the path they return, `out` when the conversion is done
\* and `path` when there is none or when it raised (bot.py:159-161, 183-185)
converted_path(ptype, path, how) ==
    IF how \in {"jpg", "tg"} THEN conversion_output(ptype, path, how)
    ELSE path

\* bot.py:686-691: convert a photo or a video; conv_path is the path the
\* conversion returned.  Pillow and ffmpeg do not await.  A conversion that
\* raises after it began to write is an event of the environment; its
\* output stays on disk.
ConvertMedia(t, how) ==
    /\ running = t
    /\ task[t].pc = "convert"
    \* bot.py:160, 183: without the file Image.open and ffmpeg fail, and the
    \* path comes back as it is
    /\ how # "same" => task[t].media_path.s \in files.present
    /\ LET ptype == task[t].ptype
           path == task[t].media_path.s
           failed == how \in {"jpg_failed", "tg_failed"}
           written == IF how = "same" THEN {}
                      ELSE {conversion_output(ptype, path, how)}
       IN  /\ how \in Conversions(ptype)
           /\ failed => Spent < MaxEvents
           /\ budget' = [budget EXCEPT !.faults = IF failed THEN @ + 1 ELSE @]
           /\ IF ptype \in {Photo, Video}
              THEN /\ task' = [task EXCEPT
                                 ![t].pc = "call_send",
                                 ![t].conv_path =
                                     StrVal(converted_path(ptype, path, how)),
                                 ![t].media_path =
                                     StrVal(converted_path(ptype, path, how)),
                                 ![t].created = @ \cup written]
                   /\ files' = [files EXCEPT !.present = @ \cup written]
              ELSE /\ task' = [task EXCEPT ![t].pc = "call_send"]
                   /\ UNCHANGED files
    /\ UNCHANGED <<ledgerVars, op, wk, now, running, reaper, client, cfg,
                   published, retractions>>

\* the file send_photo, send_video, send_voice or send_document is given
\* exists (a text has none)
media_ready(t) ==
    needs_media(task[t].ptype) =>
        task[t].media_path.s \in files.present

\* bot.py:693-704: the send_* call is made and awaited
CallSend(t) ==
    /\ running = t
    /\ task[t].pc = "call_send"
    /\ task' = [task EXCEPT ![t].pc = "send", ![t].sends = @ + 1,
                            ![t].firing_sends = @ + 1, ![t].resp = None]
    /\ running' = "none"
    /\ UNCHANGED <<ledgerVars, op, wk, now, reaper, client, files, cfg,
                   published, retractions, budget>>

\* bot.py:693-706 and 715-721: the channel accepts the message and gives it
\* the chat's next message id; the send returns the message, and the call
\* returns m.id after the cleanup of the finally block, its paths going out
\* of scope
SendReturn(t) ==
    /\ running = "none"
    /\ task[t].pc = "send"
    /\ media_ready(t)
    /\ LET c == task[t].chat_id.n
           id == next_message_id(c)
       IN  /\ client' = [client EXCEPT
                            !.next_id = [x \in DOMAIN @ \cup {c} |->
                                            IF x = c THEN id + 1 ELSE @[x]],
                            !.visible = @ \cup {<<c, id>>}]
           /\ published' = published \cup
                  {[chat_id |-> c, message_id |-> id, at |-> now]}
           /\ task' = [task EXCEPT ![t].pc = "returned",
                                   ![t].resp = IntVal(id),
                                   ![t].mid = IntVal(id),
                                   ![t].returned_at = now,
                                   ![t].media_path = None,
                                   ![t].temp_path = None,
                                   ![t].conv_path = None]
    /\ files' = [files EXCEPT !.present =
                    cleanup(@, task[t].conv_path, task[t].temp_path)]
    /\ running' = t
    /\ UNCHANGED <<ledgerVars, op, wk, now, reaper, cfg, retractions, budget>>

\* mutant: a send that raised is made once more
gives_up_after_second(sends) == sends >= 2

\* bot.py:707-714: each except clause logs and falls through to the finally
\* and to `return None`; none calls send_* again
gives_up_after(sends) == TRUE

\* bot.py:707-722: the send raises (ChatAdminRequired, BadRequest, RPCError
\* or any other exception); log, clean up, return None
SendRaise(t) ==
    /\ running = "none"
    /\ task[t].pc = "send"
    /\ media_ready(t) => Spent < MaxEvents
    /\ budget' = [budget EXCEPT !.faults = IF media_ready(t) THEN @ + 1 ELSE @]
    /\ IF gives_up_after(task[t].sends)
       THEN /\ task' = [task EXCEPT ![t].pc = "returned", ![t].mid = None,
                                    ![t].cause = "send",
                                    ![t].returned_at = now,
                                    ![t].media_path = None,
                                    ![t].temp_path = None,
                                    ![t].conv_path = None]
            /\ files' = [files EXCEPT !.present =
                            cleanup(@, task[t].conv_path, task[t].temp_path)]
       ELSE /\ task' = [task EXCEPT ![t].pc = "call_send"]
            /\ UNCHANGED files
    /\ running' = t
    /\ UNCHANGED <<ledgerVars, op, wk, now, reaper, client, cfg, published,
                   retractions>>

\* bot.py:742: int((datetime.now(tz) + timedelta(days=AUTO_DELETE_AFTER_DAYS)).timestamp())
delete_at_of(ts) == timestamp(plus_days(now_local(ts), AUTO_DELETE_AFTER_DAYS))

\* bot.py:740-743 (786-789): back in the loop with mid; when mid is set,
\* compute delete_at and resolve the reference a second time
AfterDelivery(t) ==
    /\ running = t
    /\ task[t].pc = "returned"
    /\ LET logged == [task[t] EXCEPT !.results = Append(@, task[t].mid),
                                     !.created = {}]
       IN  IF ~truthy(task[t].mid)
           THEN /\ task' = [task EXCEPT ![t] =
                              [logged EXCEPT !.pc = "pace",
                                             !.row_ids = Append(@, 0)]]
                /\ running' = "none"
           ELSE IF resolve_needs_lookup(Ref(t))
           THEN /\ task' = [task EXCEPT ![t] =
                              [logged EXCEPT !.pc = "relookup",
                                             !.delete_at = delete_at_of(now)]]
                /\ running' = "none"
           ELSE /\ task' = [task EXCEPT ![t] =
                              [logged EXCEPT
                                  !.pc = "enqueue",
                                  !.delete_at = delete_at_of(now),
                                  !.chat_id2 = int_or_none(int_of(Ref(t)))]]
                /\ UNCHANGED running
    /\ UNCHANGED <<ledgerVars, op, wk, now, reaper, client, files, cfg,
                   published, retractions, budget>>

\* bot.py:743 (789): the second get_chat returns the chat or raises
RelookupReturn(t, ok) ==
    /\ running = "none"
    /\ task[t].pc = "relookup"
    /\ ~ok => Spent < MaxEvents
    /\ budget' = [budget EXCEPT !.faults = IF ok THEN @ ELSE @ + 1]
    /\ task' = [task EXCEPT ![t].pc = "enqueue",
                            ![t].chat_id2 = IF ok
                                            THEN IntVal(get_chat_id(Ref(t)))
                                            ELSE None]
    /\ running' = t
    /\ UNCHANGED <<ledgerVars, op, wk, now, reaper, client, files, cfg,
                   published, retractions>>

\* bot.py:744-747 (790-793): schedule the deletion when the second
\* resolution gave an id (`chat_id is not None`: the id 0 is one), count
\* the post as sent, sleep 0.25 s
Enqueue(t) ==
    /\ running = t
    /\ task[t].pc = "enqueue"
    /\ IF task[t].chat_id2 # None
       THEN LET after == db_schedule_deletion(ledger, seq, task[t].chat_id2.n,
                                              task[t].mid.n, task[t].delete_at)
            IN  ledger' = after.rows /\ seq' = after.sequence
       ELSE UNCHANGED <<ledger, seq>>
    /\ task' = [task EXCEPT ![t].pc = "pace", ![t].sent = @ + 1,
                            ![t].inserted = IF task[t].chat_id2 # None
                                            THEN @ + 1 ELSE @,
                            ![t].row_ids = Append(@, IF task[t].chat_id2 # None
                                                     THEN seq + 1 ELSE 0)]
    /\ running' = "none"
    /\ UNCHANGED <<gone, op, wk, now, reaper, client, files, cfg, published,
                   retractions, budget>>

\* mutant: the loop stops after the first channel
more_channels_none(k, channel_ids) == FALSE

\* bot.py:739 (785): `for raw_ref in config.CHANNEL_IDS:` has a next element
more_channels(k, channel_ids) == k < Len(channel_ids)

\* bot.py:747-751 (793-794): the 0.25 s are over; next channel, or the end
\* of the loop
PaceDone(t) ==
    /\ running = "none"
    /\ task[t].pc = "pace"
    /\ IF more_channels(task[t].k, cfg.CHANNEL_IDS)
       THEN /\ task' = [task EXCEPT ![t].pc = "deliver", ![t].k = @ + 1]
            /\ running' = t
       ELSE IF t \in Workers
       THEN /\ task' = [task EXCEPT ![t].pc = "reread"]
            /\ running' = t
       ELSE /\ task' = [task EXCEPT ![t].pc = "reply"]
            /\ UNCHANGED running
    /\ UNCHANGED <<ledgerVars, op, wk, now, reaper, client, files, cfg,
                   published, retractions, budget>>

(***************************************************************************)
(* SpecWeekly: the clock starts anywhere in WeeklyClocks; the wait is      *)
(* computed for a schedule (the first lines of the worker's loop), the     *)
(* worker sleeps max(1, wait_s) and the wait is computed again.            *)
(***************************************************************************)
WeeklyTimesOfDay ==
    {0, 9 * 3600 - 1, 9 * 3600, 9 * 3600 + 1, 9 * 3600 + 59 * 60, DaySeconds - 1}
WeeklyMicros == {0, 1, MicrosPerSecond - 1}
WeeklyClocks ==
    {DateTime(d * DaySeconds + t, us) :
        d \in 0..MaxDay, t \in WeeklyTimesOfDay, us \in WeeklyMicros}
\* the hours and minutes a "hh:mm" of config.py is read as: times of day,
\* and ints that are none ("-1:00", "24:00", "09:60")
WeeklyHours == {-1, 0, 9, 23, 24}
WeeklyMinutes == {0, 59, 60}

NoWk == [armed |-> FALSE, now |-> DateTime(0, 0), slept |-> FALSE,
         raised |-> FALSE]

InitWeekly ==
    \E n \in WeeklyClocks :
        wk = [armed |-> FALSE, now |-> n, slept |-> FALSE, raised |-> FALSE]

\* bot.py:731: wait_s = _seconds_until_next_weekly(wd, h, m, config.TIMEZONE);
\* when it raises, the worker ends there
WeeklyArm(wd, h, m) ==
    /\ ~wk.armed
    /\ ~wk.raised
    /\ LET wait_s == seconds_until_next_weekly(wk.now, wd, h, m)
       IN  IF wait_s = ValueError
           THEN wk' = [armed |-> FALSE, now |-> wk.now, slept |-> wk.slept,
                       raised |-> TRUE, wd |-> wd, h |-> h, m |-> m]
           ELSE wk' = [armed |-> TRUE, now |-> wk.now, slept |-> wk.slept,
                       raised |-> FALSE, wd |-> wd, h |-> h, m |-> m,
                       wait |-> wait_s]
    /\ UNCHANGED <<ledgerVars, op, sysVars>>

\* bot.py:733: await asyncio.sleep(max(1, wait_s)), the clock then reads
\* now + max(1, wait_s)
WeeklySleep ==
    /\ wk.armed
    /\ ~wk.slept
    /\ wk' = [armed |-> FALSE, now |-> dt_plus(wk.now, max_1(wk.wait)),
              slept |-> TRUE, raised |-> FALSE]
    /\ UNCHANGED <<ledgerVars, op, sysVars>>

NextWeekly ==
    \/ \E wd \in 0..6, h \in WeeklyHours, m \in WeeklyMinutes : WeeklyArm(wd, h, m)
    \/ WeeklySleep

(***************************************************************************)
(* SpecLedger: the db_* functions called in any order.                     *)
(***************************************************************************)
LedgerChats == {-1001, -1002}
LedgerMessages == {7}

NoOp == [name |-> "none"]

InitLedger ==
    /\ ledger = db_init.rows
    /\ seq = db_init.sequence
    /\ gone = {}
    /\ op = NoOp
    /\ wk = NoWk
    /\ SysIdle

LedgerEnqueue(c, m, d) ==
    /\ seq < MaxRows
    /\ LET after == db_schedule_deletion(ledger, seq, c, m, d)
       IN  /\ ledger' = after.rows
           /\ seq' = after.sequence
           /\ op' = [name |-> "enqueue", chat_id |-> c, message_id |-> m,
                     delete_at |-> d, before |-> ledger]
    /\ UNCHANGED <<gone, wk, sysVars>>

LedgerFetch(t, n) ==
    /\ op' = [name |-> "fetch", now_ts |-> t, limit |-> n,
              result |-> db_fetch_due_deletions(ledger, t, n)]
    /\ UNCHANGED <<ledgerVars, wk, sysVars>>

LedgerRemove(id) ==
    /\ ledger' = db_delete_deletion_row(ledger, id)
    /\ gone' = gone \cup (RowIds(ledger) \ RowIds(ledger'))
    /\ op' = [name |-> "remove", row_id |-> id, before |-> ledger,
              raised |-> db_delete_raises(ledger, id)]
    /\ UNCHANGED <<seq, wk, sysVars>>

NextLedger ==
    \/ \E c \in LedgerChats, m \in LedgerMessages, d \in 0..MaxDue :
           LedgerEnqueue(c, m, d)
    \/ \E t \in 0..(MaxDue + 1), n \in 0..MaxLimit : LedgerFetch(t, n)
    \/ \E id \in 1..(MaxRows + 1) : LedgerRemove(id)

SpecLedger == InitLedger /\ [][NextLedger]_vars

InitWeeklyOnly ==
    /\ InitWeekly
    /\ ledger = db_init.rows
    /\ seq = db_init.sequence
    /\ gone = {}
    /\ op = NoOp
    /\ SysIdle

SpecWeekly == InitWeeklyOnly /\ [][NextWeekly]_vars

(***************************************************************************)
(* _autodelete_worker, bot.py:753-768.                                     *)
(***************************************************************************)
\* bot.py:757: limit=200
ReaperLimit == 200
\* bot.py:768: await asyncio.sleep(600)
PollSeconds == 600

\* bot.py:756-762 and 768: read the clock and fetch the due rows, up to 200
\* of them; with none, sleep 600 s, else call delete_messages for the first
\* and await it.  reaper.table keeps the table as the fetch saw it.
ReaperPoll ==
    /\ running = "none"
    /\ reaper.pc = "poll" \/ (reaper.pc = "sleep" /\ now >= reaper.wake)
    /\ LET rows == db_fetch_due_deletions(ledger, now, ReaperLimit)
       IN  reaper' = IF rows = <<>>
                     THEN [NewReaper EXCEPT !.pc = "sleep",
                                            !.wake = now + PollSeconds]
                     ELSE [reaper EXCEPT !.pc = "retract", !.rows = rows,
                                         !.i = 1, !.now_ts = now,
                                         !.table = ledger]
    /\ UNCHANGED <<ledgerVars, op, wk, now, running, task, client, files, cfg,
                   published, retractions, budget>>

\* mutant: the row is deleted only when delete_messages returned
row_deleted_after_on_success(ok) == ok

\* bot.py:765-766: `finally: db_delete_deletion_row(row_id)`
row_deleted_after(ok) == TRUE

\* the delete_at of the row with this id
DeleteAtOf(rows, row_id) == (CHOOSE r \in rows : r.id = row_id).delete_at

\* bot.py:761-767: delete_messages returns or raises; either way the row is
\* deleted from the table (finally), then sleep 0.2 s.  The history keeps
\* each call: its number, its row and the row's delete_at, the time of the
\* poll that fetched it, the time it ended, and whether it returned.
ReaperRetractReturn(ok) ==
    /\ running = "none"
    /\ reaper.pc = "retract"
    /\ ~ok => Spent < MaxEvents
    /\ budget' = [budget EXCEPT !.faults = IF ok THEN @ ELSE @ + 1]
    /\ LET row_id == reaper.rows[reaper.i][1]
           chat_id == reaper.rows[reaper.i][2]
           message_id == reaper.rows[reaper.i][3]
       IN  /\ client' = [client EXCEPT !.visible =
                            IF ok THEN @ \ {<<chat_id, message_id>>} ELSE @]
           /\ retractions' = retractions \cup
                  {[n |-> Cardinality(retractions) + 1, row_id |-> row_id,
                    chat_id |-> chat_id, message_id |-> message_id,
                    due |-> DeleteAtOf(reaper.table, row_id),
                    poll |-> reaper.now_ts, at |-> now, ok |-> ok]}
           /\ ledger' = IF row_deleted_after(ok)
                        THEN db_delete_deletion_row(ledger, row_id)
                        ELSE ledger
           /\ gone' = gone \cup (RowIds(ledger) \ RowIds(ledger'))
    /\ reaper' = [reaper EXCEPT !.pc = "pace"]
    /\ UNCHANGED <<seq, op, wk, now, running, task, files, cfg, published>>

\* bot.py:760 and 767-768: the 0.2 s are over; the next row of the batch, or
\* sleep 600 s, the locals of the poll being dead
ReaperPaceDone ==
    /\ running = "none"
    /\ reaper.pc = "pace"
    /\ reaper' = IF reaper.i < Len(reaper.rows)
                 THEN [reaper EXCEPT !.pc = "retract", !.i = @ + 1]
                 ELSE [NewReaper EXCEPT !.pc = "sleep",
                                        !.wake = now + PollSeconds]
    /\ UNCHANGED <<ledgerVars, op, wk, now, running, task, client, files, cfg,
                   published, retractions, budget>>

(***************************************************************************)
(* The clock.  A task whose sleep is over, or that sleeps for less than a  *)
(* second (the 0.25 s and 0.2 s between sends), runs before the clock      *)
(* moves to the next timer (Tick); the clock comes to its next second      *)
(* while a task awaits the channel client (NetworkDelay) or sleeps for     *)
(* less than a second (PaceDelay).  The clock runs for HorizonDays days.   *)
(***************************************************************************)
Min(S) == CHOOSE x \in S : \A y \in S : x <= y

TaskReady(t) ==
    \/ task[t].pc \in {"start", "pace"}
    \/ task[t].pc = "sleep" /\ task[t].wake <= now
ReaperReady ==
    \/ reaper.pc \in {"poll", "pace"}
    \/ reaper.pc = "sleep" /\ reaper.wake <= now
SomeReady == ReaperReady \/ \E t \in Deliverers : TaskReady(t)

\* a task awaits an answer of the channel client
AwaitsClient(t) == task[t].pc \in {"lookup", "send", "relookup", "reply"}
SomeAwaitsClient == reaper.pc = "retract" \/ \E t \in Deliverers : AwaitsClient(t)

\* the first time at or after ts at which the sleeping reaper polls
PollAtOrAfter(ts) ==
    IF ts <= reaper.wake THEN reaper.wake
    ELSE reaper.wake
           + PollSeconds * ((ts - reaper.wake + PollSeconds - 1) \div PollSeconds)

\* the times at which a sleeping task has something to do: a worker's wake,
\* and the reaper's first poll that finds a due row.  The reaper's polls
\* before that one find nothing and change nothing but its own timer.
NextEvents ==
    {task[t].wake : t \in {w \in Workers : task[w].pc = "sleep"}}
      \cup (IF ledger = {} THEN {}
            ELSE {PollAtOrAfter(Min({r.delete_at : r \in ledger}))})

\* every task sleeps: the clock moves to the next event, the reaper having
\* polled in vain every 600 s until then
Tick ==
    /\ running = "none"
    /\ ~SomeReady
    /\ ~SomeAwaitsClient
    /\ NextEvents # {}
    /\ Min(NextEvents) <= MaxTime
    /\ now' = Min(NextEvents)
    /\ reaper' = [reaper EXCEPT !.wake = PollAtOrAfter(Min(NextEvents))]
    /\ UNCHANGED <<ledgerVars, op, wk, running, task, client, files, cfg,
                   published, retractions, budget>>

\* a task sleeps the 0.25 s or 0.2 s between two sends
Paces(t) == task[t].pc = "pace"
SomePaces == reaper.pc = "pace" \/ \E t \in Deliverers : Paces(t)

\* bot.py:747 (793) and 767: the clock comes to its next second during the
\* 0.25 s or 0.2 s of a task; the event loop is free, it runs the timers
\* that fall due before it goes on with that task
PaceDelay ==
    /\ running = "none"
    /\ SomePaces
    /\ Spent < MaxEvents
    /\ now + 1 <= MaxTime
    /\ \A t \in Workers : task[t].pc = "sleep" => now + 1 <= task[t].wake
    /\ reaper.pc = "sleep" => now + 1 <= reaper.wake
    /\ now' = now + 1
    /\ budget' = [budget EXCEPT !.delays = @ + 1]
    /\ UNCHANGED <<ledgerVars, op, wk, running, task, reaper, client, files,
                   cfg, published, retractions>>

\* an answer of the channel client takes a second
NetworkDelay ==
    /\ running = "none"
    /\ SomeAwaitsClient
    /\ Spent < MaxEvents
    /\ now + 1 <= MaxTime
    /\ \A t \in Workers : task[t].pc = "sleep" => now + 1 <= task[t].wake
    /\ reaper.pc = "sleep" => now + 1 <= reaper.wake
    /\ now' = now + 1
    /\ budget' = [budget EXCEPT !.delays = @ + 1]
    /\ UNCHANGED <<ledgerVars, op, wk, running, task, reaper, client, files,
                   cfg, published, retractions>>

(***************************************************************************)
(* Spec: the program from startup, in the zone that keeps its offset, with *)
(* downloads and conversions that are over within the second they began.   *)
(***************************************************************************)
Init ==
    /\ ledger = db_init.rows
    /\ seq = db_init.sequence
    /\ gone = {}
    /\ op = NoOp
    /\ wk = NoWk
    /\ InitSys

Next ==
    \/ \E t \in Workers : WorkerStart(t)
    \/ \E t \in Workers : WorkerArm(t)
    \/ \E t \in Workers : WorkerWake(t)
    \/ \E t \in Workers : WorkerReread(t)
    \/ \E idx \in ForceIndexes : ForceCommand(idx)
    \/ ForceReplied
    \/ \E t \in Deliverers : BeginDelivery(t)
    \/ \E t \in Deliverers, ok \in BOOLEAN : LookupReturn(t, ok)
    \/ \E t \in Deliverers : UrlOpen(t)
    \/ \E t \in Deliverers : FetchMedia(t, ContentTypes)
    \/ \E t \in Deliverers, how \in ConversionOutcomes : ConvertMedia(t, how)
    \/ \E t \in Deliverers : CallSend(t)
    \/ \E t \in Deliverers : SendReturn(t)
    \/ \E t \in Deliverers : SendRaise(t)
    \/ \E t \in Deliverers : AfterDelivery(t)
    \/ \E t \in Deliverers, ok \in BOOLEAN : RelookupReturn(t, ok)
    \/ \E t \in Deliverers : Enqueue(t)
    \/ \E t \in Deliverers : PaceDone(t)
    \/ ReaperPoll
    \/ \E ok \in BOOLEAN : ReaperRetractReturn(ok)
    \/ ReaperPaceDone
    \/ Tick
    \/ NetworkDelay
    \/ PaceDelay

Spec == Init /\ [][Next]_vars

(***************************************************************************)
(* SpecRetention: the program from startup in a zone that changes its      *)
(* offset the night after the posts are published: the posts are those of  *)
(* Saturday 09:00 and 09:10, the program starts that Saturday at 08:50.    *)
(***************************************************************************)
RetentionConfig(channel_ids, zone) ==
    [Config(channel_ids) EXCEPT
        !.TIMEZONE = zone,
        !.SCHEDULE = <<Schedule(str("samedi"), HHMM(9, 0)),
                       Schedule(str("Samedi"), HHMM(9, 10))>>]

InitRetention ==
    /\ ledger = db_init.rows
    /\ seq = db_init.sequence
    /\ gone = {}
    /\ op = NoOp
    /\ wk = NoWk
    /\ InitProgram({RetentionConfig(ids, z) :
                        ids \in ChannelLists, z \in DstZones})

SpecRetention == InitRetention /\ [][Next]_vars

(***************************************************************************)
(* SpecFaults: the program from startup, where moreover a POSTn_SCHEDULE   *)
(* of config.py may be missing or give an hour that no day has, a db_*     *)
(* call may raise sqlite3.Error, the handle of a channel may be given to   *)
(* another chat, and a download or a conversion may hold the event loop    *)
(* for a second or, the server silent, for the timeout of urlopen.         *)
(***************************************************************************)
\* getattr(config, schedule_var) when the variable is missing
NoSchedule == [present |-> FALSE, day |-> <<>>, hhmm |-> <<>>]

\* what POST1_SCHEDULE may be
Schedules1 ==
    {Schedule(str("lundi"), HHMM(9, 0)),
     Schedule(str("lundi"), HHMM(25, 0)),
     NoSchedule}

\* the handle is given to another chat: get_chat resolves it to that chat
\* from now on
HandleMoves ==
    /\ running = "none"
    /\ client.handle = HandleChat
    /\ Spent < MaxEvents
    /\ budget' = [budget EXCEPT !.faults = @ + 1]
    /\ client' = [client EXCEPT !.handle = MovedChat]
    /\ UNCHANGED <<ledgerVars, op, wk, now, running, task, reaper, files, cfg,
                   published, retractions>>

\* bot.py:745 (791): db_schedule_deletion raises (bot.py:67-73: no try
\* around connect, execute and commit); nothing in _autopost_worker catches
\* it, the task ends.  In the command handler the exception ends the
\* handler before its reply.
EnqueueRaise(t) ==
    /\ running = t
    /\ task[t].pc = "enqueue"
    /\ task[t].chat_id2 # None
    /\ Spent < MaxEvents
    /\ budget' = [budget EXCEPT !.faults = @ + 1]
    /\ IF t \in Workers
       THEN /\ task' = tasks_after_raise(t)
            /\ reaper' = reaper_after_raise(t)
       ELSE /\ task' = [task EXCEPT ![t] = NewTask("idle")]
            /\ UNCHANGED reaper
    /\ running' = "none"
    /\ UNCHANGED <<ledgerVars, op, wk, now, client, files, cfg, published,
                   retractions>>

\* bot.py:757: db_fetch_due_deletions raises (bot.py:75-82); the call is
\* outside the try of the loop body, the reaper ends
ReaperFetchRaise ==
    /\ running = "none"
    /\ reaper.pc = "poll" \/ (reaper.pc = "sleep" /\ now >= reaper.wake)
    /\ Spent < MaxEvents
    /\ budget' = [budget EXCEPT !.faults = @ + 1]
    /\ task' = tasks_after_raise("reaper")
    /\ reaper' = reaper_after_raise("reaper")
    /\ UNCHANGED <<ledgerVars, op, wk, now, running, client, files, cfg,
                   published, retractions>>

\* bot.py:761-766: delete_messages returns or raises, then
\* db_delete_deletion_row raises in the finally (bot.py:84-87): the row
\* stays, the exception leaves the loop and the reaper ends
ReaperRemoveRaise(ok) ==
    /\ running = "none"
    /\ reaper.pc = "retract"
    /\ Spent < MaxEvents
    /\ budget' = [budget EXCEPT !.faults = @ + 1]
    /\ LET row_id == reaper.rows[reaper.i][1]
           chat_id == reaper.rows[reaper.i][2]
           message_id == reaper.rows[reaper.i][3]
       IN  /\ client' = [client EXCEPT !.visible =
                            IF ok THEN @ \ {<<chat_id, message_id>>} ELSE @]
           /\ retractions' = retractions \cup
                  {[n |-> Cardinality(retractions) + 1, row_id |-> row_id,
                    chat_id |-> chat_id, message_id |-> message_id,
                    due |-> DeleteAtOf(reaper.table, row_id),
                    poll |-> reaper.now_ts, at |-> now, ok |-> ok]}
    /\ task' = tasks_after_raise("reaper")
    /\ reaper' = reaper_after_raise("reaper")
    /\ UNCHANGED <<ledgerVars, op, wk, now, running, files, cfg, published>>

InitFaults ==
    /\ ledger = db_init.rows
    /\ seq = db_init.sequence
    /\ gone = {}
    /\ op = NoOp
    /\ wk = NoWk
    /\ InitProgram({[Config(ids) EXCEPT !.SCHEDULE[1] = s] :
                        ids \in ChannelLists, s \in Schedules1})

NextFaults ==
    \/ \E t \in Workers : WorkerStart(t)
    \/ \E t \in Workers : WorkerArm(t)
    \/ \E t \in Workers : WorkerWake(t)
    \/ \E t \in Workers : WorkerReread(t)
    \/ \E idx \in ForceIndexes : ForceCommand(idx)
    \/ ForceReplied
    \/ \E t \in Deliverers : BeginDelivery(t)
    \/ \E t \in Deliverers, ok \in BOOLEAN : LookupReturn(t, ok)
    \/ \E t \in Deliverers : UrlOpen(t)
    \/ \E t \in Deliverers : FetchMedia(t, ContentTypes)
    \/ \E t \in Deliverers, how \in ConversionOutcomes : ConvertMedia(t, how)
    \/ \E t \in Deliverers : CallSend(t)
    \/ \E t \in Deliverers : SendReturn(t)
    \/ \E t \in Deliverers : SendRaise(t)
    \/ \E t \in Deliverers : AfterDelivery(t)
    \/ \E t \in Deliverers, ok \in BOOLEAN : RelookupReturn(t, ok)
    \/ \E t \in Deliverers : Enqueue(t)
    \/ \E t \in Deliverers : EnqueueRaise(t)
    \/ \E t \in Deliverers : PaceDone(t)
    \/ ReaperPoll
    \/ ReaperFetchRaise
    \/ \E ok \in BOOLEAN : ReaperRetractReturn(ok)
    \/ \E ok \in BOOLEAN : ReaperRemoveRaise(ok)
    \/ ReaperPaceDone
    \/ HandleMoves
    \/ Tick
    \/ NetworkDelay
    \/ PaceDelay
    \/ \E t \in Deliverers : FetchTimeout(t, ContentTypes)
    \/ \E t \in Deliverers : Blocked(t)

SpecFaults == InitFaults /\ [][NextFaults]_vars

(***************************************************************************)
(* SpecEdits: the program from startup, where moreover a POSTn_SCHEDULE of *)
(* the loaded config module may be given another value while the program   *)
(* runs.                                                                   *)
(***************************************************************************)
\* Tuesday 09:00 written with white space around the day, the hour and the
\* whole: a LINE TABULATION (11), a NEXT LINE (133), NO-BREAK SPACEs (160)
TuesdayPadded ==
    Schedule(<<11>> \o str(" MARDI") \o <<160>>,
             <<160>> \o str("09") \o <<11>> \o str(":00") \o <<133>>)

\* the values a schedule may be edited to
EditedSchedules == {Schedule(str("lundi"), HHMM(9, 20)), TuesdayPadded}

\* config.POSTi_SCHEDULE is set to s; the tasks are as they were, but for
\* the note that the worker of item i has not read the new value
ScheduleEdit(i, s) ==
    /\ running = "none"
    /\ cfg.SCHEDULE[i] # s
    /\ Spent < MaxEvents
    /\ budget' = [budget EXCEPT !.faults = @ + 1]
    /\ cfg' = [cfg EXCEPT !.SCHEDULE[i] = s]
    /\ task' = [t \in Deliverers |->
                  IF t \in Workers /\ ItemOf(t) = i /\ task[t].pc # "start"
                  THEN [task[t] EXCEPT !.stale = TRUE]
                  ELSE task[t]]
    /\ UNCHANGED <<ledgerVars, op, wk, now, running, reaper, client, files,
                   published, retractions>>

NextEdits ==
    \/ \E t \in Workers : WorkerStart(t)
    \/ \E t \in Workers : WorkerArm(t)
    \/ \E t \in Workers : WorkerWake(t)
    \/ \E t \in Workers : WorkerReread(t)
    \/ \E idx \in ForceIndexes : ForceCommand(idx)
    \/ ForceReplied
    \/ \E t \in Deliverers : BeginDelivery(t)
    \/ \E t \in Deliverers, ok \in BOOLEAN : LookupReturn(t, ok)
    \/ \E t \in Deliverers : UrlOpen(t)
    \/ \E t \in Deliverers : FetchMedia(t, ContentTypes)
    \/ \E t \in Deliverers, how \in ConversionOutcomes : ConvertMedia(t, how)
    \/ \E t \in Deliverers : CallSend(t)
    \/ \E t \in Deliverers : SendReturn(t)
    \/ \E t \in Deliverers : SendRaise(t)
    \/ \E t \in Deliverers : AfterDelivery(t)
    \/ \E t \in Deliverers, ok \in BOOLEAN : RelookupReturn(t, ok)
    \/ \E t \in Deliverers : Enqueue(t)
    \/ \E t \in Deliverers : PaceDone(t)
    \/ ReaperPoll
    \/ \E ok \in BOOLEAN : ReaperRetractReturn(ok)
    \/ ReaperPaceDone
    \/ \E i \in 1..Len(MESSAGES), s \in EditedSchedules : ScheduleEdit(i, s)
    \/ Tick
    \/ NetworkDelay
    \/ PaceDelay

SpecEdits == Init /\ [][NextEdits]_vars


(***************************************************************************)
(* Claims about the table, checked under SpecLedger.                       *)
(***************************************************************************)
\* how many entries of a fetch result carry row id `id`
Occurrences(result, id) == Cardinality({i \in DOMAIN result : result[i][1] = id})

\* the due rows that ORDER BY id puts before row r
OlderDue(rows, r, now_ts) ==
    {q \in rows : q.delete_at <= now_ts /\ q.id < r.id}

\* C4 as stated: a fetch with now >= due_at returns every row still in the
\* table exactly once, and a fetch with now < due_at does not return it.
\* (Stated for a limit of at least 1; a limit of 0 returns nothing at all.)
C4_FetchReturnsEveryDueRow ==
    (op.name = "fetch" /\ op.limit >= 1) =>
        \A r \in ledger :
            /\ r.delete_at <= op.now_ts => Occurrences(op.result, r.id) = 1
            /\ r.delete_at > op.now_ts => Occurrences(op.result, r.id) = 0

\* C4 amended: a fetch with now >= due_at returns a row still in the table
\* exactly once when fewer than `limit` due rows were enqueued before it, and
\* never more than once; a fetch with now < due_at never returns it; a row
\* that was removed is not returned; the entry carries the row's channel and
\* message.
C4_FetchReturnsDueRowWithinLimit ==
    op.name = "fetch" =>
        /\ \A r \in ledger :
            /\ Occurrences(op.result, r.id) <= 1
            /\ (r.delete_at <= op.now_ts
                    /\ Cardinality(OlderDue(ledger, r, op.now_ts)) < op.limit)
                  => \E i \in DOMAIN op.result :
                        op.result[i] = <<r.id, r.chat_id, r.message_id>>
            /\ r.delete_at > op.now_ts => Occurrences(op.result, r.id) = 0
        /\ \A id \in gone : Occurrences(op.result, id) = 0

\* C4 witness: with a row removed in between, a fetch returns a due row and
\* leaves out a row that is not due yet
C4_Witness ==
    /\ op.name = "fetch"
    /\ gone # {}
    /\ \E r \in ledger : r.delete_at = op.now_ts /\ Occurrences(op.result, r.id) = 1
    /\ \E r \in ledger : r.delete_at > op.now_ts

\* C7: a fetch returns at most `limit` entries, only rows with
\* delete_at <= now, in ascending id order, and they are the `limit` oldest
\* due rows: every due row left out has a larger id than every row returned
\* and is left out only when `limit` entries were returned; ids are unique
\* and the id of a deleted row is never given again.
C7_FetchCappedOrderedOldest ==
    /\ \A r, q \in ledger : r.id = q.id => r = q
    /\ RowIds(ledger) \cap gone = {}
    /\ \A id \in RowIds(ledger) \cup gone : id <= seq
    /\ op.name = "fetch" =>
        LET res == op.result
            due == DueRows(ledger, op.now_ts)
        IN  /\ Len(res) <= op.limit
            /\ \A i \in DOMAIN res :
                   \E r \in due : res[i] = <<r.id, r.chat_id, r.message_id>>
            /\ \A i, j \in DOMAIN res : i < j => res[i][1] < res[j][1]
            /\ \A r \in due :
                   Occurrences(res, r.id) = 0 =>
                       /\ Len(res) = op.limit
                       /\ \A i \in DOMAIN res : res[i][1] < r.id

\* C7 witness: more rows are due than the limit, a row was deleted before,
\* and the fetch returns exactly `limit` >= 2 entries
C7_Witness ==
    /\ op.name = "fetch"
    /\ op.limit >= 2
    /\ Len(op.result) = op.limit
    /\ Cardinality(DueRows(ledger, op.now_ts)) > op.limit
    /\ gone # {}

\* C8: a removal does not raise, leaves no row with that id and changes no
\* other row; the removal of an absent id (never inserted, or removed
\* before) leaves the table as it was.
C8_RemoveIdempotent ==
    op.name = "remove" =>
        /\ ~op.raised
        /\ op.row_id \notin RowIds(ledger)
        /\ \A r \in op.before : r.id # op.row_id => r \in ledger
        /\ ledger \subseteq op.before
        /\ op.row_id \notin RowIds(op.before) => ledger = op.before

\* C8 witness: the second removal of the same row, other rows being present
C8_Witness ==
    /\ op.name = "remove"
    /\ op.row_id \in gone
    /\ op.row_id \notin RowIds(op.before)
    /\ Cardinality(ledger) >= 2

(***************************************************************************)
(* Claims about _seconds_until_next_weekly, checked under SpecWeekly.      *)
(***************************************************************************)
\* the instant the armed wait ends at
WkTarget == dt_plus(wk.now, wk.wait)
\* the clock reads the schedule's time of day to the microsecond
WkNowAtScheduledTime ==
    /\ dt_hour(wk.now) = wk.h /\ dt_minute(wk.now) = wk.m
    /\ dt_second(wk.now) = 0 /\ wk.now.us = 0
SevenDays == [secs |-> 7 * DaySeconds, us |-> 0]

\* C5: the wait computed is positive (the occurrence is strictly later than
\* now), the occurrence falls on the configured weekday at hour:minute:00
\* sharp, and when now is exactly a scheduled instant the occurrence is
\* now + 7 days.
C5_NextOccurrenceFutureOnSchedule ==
    wk.armed =>
        /\ wk.wait.secs >= 0
        /\ wk.wait.secs > 0 \/ wk.wait.us > 0
        /\ ~dt_le(WkTarget, wk.now)
        /\ weekday(WkTarget) = wk.wd
        /\ dt_hour(WkTarget) = wk.h
        /\ dt_minute(WkTarget) = wk.m
        /\ dt_second(WkTarget) = 0
        /\ WkTarget.us = 0
        /\ (weekday(wk.now) = wk.wd /\ WkNowAtScheduledTime) => wk.wait = SevenDays

\* C5 witness: armed a second time at the very instant the first wait ended
\* at, the wait is 7 days
C5_Witness ==
    /\ wk.armed
    /\ wk.slept
    /\ weekday(wk.now) = wk.wd
    /\ WkNowAtScheduledTime
    /\ wk.wait = SevenDays

\* the scheduled time of day on the clock's own day
WkTodayAtScheduledTime == replace_time(wk.now, wk.h, wk.m)

\* C6: the occurrence is the first scheduled instant after now: at most 7
\* days ahead, with no scheduled instant in between; it is today when today
\* is the weekday and the time of day is still ahead, and the same weekday
\* 7 days later when today is the weekday and the time of day has passed.
C6_NextOccurrenceIsSmallest ==
    wk.armed =>
        /\ dt_le(WkTarget, dt_plus(wk.now, SevenDays))
        /\ dt_le(plus_days(WkTarget, -7), wk.now)
        /\ (weekday(wk.now) = wk.wd /\ ~dt_le(WkTodayAtScheduledTime, wk.now))
              => WkTarget = WkTodayAtScheduledTime
        /\ (weekday(wk.now) = wk.wd /\ dt_le(WkTodayAtScheduledTime, wk.now)
                /\ WkTodayAtScheduledTime # wk.now)
              => WkTarget = plus_days(WkTodayAtScheduledTime, 7)

\* C6 witness: Monday 09:00:01 for a Monday 09:00 schedule
C6_Witness ==
    /\ wk.armed
    /\ wk.wd = 0 /\ wk.h = 9 /\ wk.m = 0
    /\ wk.now = DateTime(9 * 3600 + 1, 0)
    /\ WkTarget = DateTime(7 * DaySeconds + 9 * 3600, 0)

(***************************************************************************)
(* Claims about the program (Spec).                                        *)
(***************************************************************************)
\* the retention period, in seconds
RetentionSeconds == AUTO_DELETE_AFTER_DAYS * DaySeconds

\* the rows of the table for one message of one channel
RowsFor(chat_id, message_id) ==
    {r \in ledger : r.chat_id = chat_id /\ r.message_id = message_id}

\* task t is back from one pass of the loop body: the delivery has returned
\* and the code after it has run
LoopBodyDone(t) == task[t].pc = "pace"

\* C1, as the specification states it: when a delivery (of a worker or of
\* /force_post_index) returned a message id, the loop body inserted exactly
\* one row for that channel and message, due at the time the delivery
\* returned plus the retention period; when it returned None, the loop body
\* inserted no row.  The program violates it: the reference is resolved a
\* second time after the send, and no row is inserted when that fails.
C1_DeliveryEnqueuesExactlyOneRow ==
    \A t \in Deliverers :
        LoopBodyDone(t) =>
            IF truthy(task[t].mid)
            THEN /\ task[t].inserted = 1
                 /\ Cardinality(RowsFor(task[t].chat_id.n, task[t].mid.n)) = 1
                 /\ \A r \in RowsFor(task[t].chat_id.n, task[t].mid.n) :
                        /\ r.id > task[t].rows_before
                        /\ r.delete_at = task[t].returned_at + RetentionSeconds
            ELSE task[t].inserted = 0

\* a message the program is about to enqueue: its send has returned and the
\* loop body has not reached the end of its pass
BeingEnqueued(m) ==
    \E t \in Deliverers :
        /\ task[t].pc \in {"returned", "relookup", "enqueue"}
        /\ task[t].chat_id = IntVal(m.chat_id)
        /\ task[t].mid = IntVal(m.message_id)

\* a retraction of message m was attempted at or after its retention window
RetractionAttempted(m) ==
    \E x \in retractions :
        /\ x.chat_id = m.chat_id
        /\ x.message_id = m.message_id
        /\ x.at >= m.at + RetentionSeconds

\* C2, in the form a finite run refutes: the reaper attempts the retraction
\* of the rows of the table only, so a published message that is to be
\* retracted eventually has had its attempt, or has a row in the table, or is
\* about to get one.  The program violates it: a message whose second
\* resolution failed is published and has no row, for ever.
C2_PublishedMessageStaysScheduled ==
    \A m \in published :
        \/ RetractionAttempted(m)
        \/ RowsFor(m.chat_id, m.message_id) # {}
        \/ BeingEnqueued(m)

\* the rows the poll in progress found due, and the others of the table as
\* the poll found it
PollDue == {r \in reaper.table : r.delete_at <= reaper.now_ts}
PollNotDue == {r \in reaper.table : r.delete_at > reaper.now_ts}

\* the rows of the batch the poll is through with
PollHandled ==
    {reaper.rows[j] : j \in 1..(IF reaper.pc = "pace" THEN reaper.i
                                ELSE reaper.i - 1)}

Smaller(a, b) == IF a <= b THEN a ELSE b

\* C3: during and at the end of a poll, the batch is made of the rows due at
\* the time of the poll, oldest first, up to the batch limit; each row the
\* poll is through with has had its delete_messages call for its chat and
\* message and is out of the table; each row not due at the time of the poll
\* is still in the table and has had no delete_messages call.
C3_PollRetractsExactlyDueRows ==
    reaper.pc \in {"retract", "pace"} =>
        /\ Len(reaper.rows) = Smaller(Cardinality(PollDue), ReaperLimit)
        /\ \A j \in DOMAIN reaper.rows :
               /\ \E r \in PollDue : <<r.id, r.chat_id, r.message_id>> = reaper.rows[j]
               /\ \A r \in PollDue :
                      r.id < reaper.rows[j][1] =>
                          \E i \in 1..(j - 1) : reaper.rows[i][1] = r.id
        /\ \A row \in PollHandled :
               /\ row[1] \notin RowIds(ledger)
               /\ \E x \in retractions :
                      /\ x.row_id = row[1]
                      /\ x.chat_id = row[2]
                      /\ x.message_id = row[3]
                      /\ x.at >= reaper.now_ts
        /\ \A r \in PollNotDue :
               /\ r \in ledger
               /\ \A x \in retractions : x.row_id # r.id

\* a poll that found two due rows and one not yet due is through with its batch
C3_Witness ==
    /\ reaper.pc = "pace"
    /\ reaper.i = Len(reaper.rows)
    /\ Cardinality(PollDue) = 2
    /\ Cardinality(PollNotDue) = 1
    /\ \A x \in retractions : x.ok

\* the delivery of task t has returned to the loop after a media fetch that
\* gave None, for a post whose type needs a media
NullFetchReturned(t) ==
    /\ task[t].pc = "returned"
    /\ needs_media(ptype_of(task[t].post))
    /\ task[t].fetched = "null"

\* C9, as the specification states it: a delivery whose media fetch returned
\* None returns None and has made no call to the channel client.  The
\* program violates it for a symbolic handle: get_chat is called before the
\* media is fetched.
C9_NullFetchMakesNoClientCall ==
    \A t \in Deliverers :
        NullFetchReturned(t) =>
            /\ task[t].mid = None
            /\ task[t].sends = 0
            /\ task[t].lookups = 0

\* C9, amended: a delivery whose media fetch returned None returns None and
\* has made no send call; the only call to the channel client it has made is
\* the one get_chat lookup of a reference that is a symbolic handle, and none
\* for a numeric reference.
C9_NullFetchSendsNothing ==
    \A t \in Deliverers :
        NullFetchReturned(t) =>
            /\ task[t].mid = None
            /\ task[t].sends = 0
            /\ task[t].lookups = (IF Ref(t).kind = "int" THEN 0 ELSE 1)

\* the photo post delivered to the handle: the handle was looked up, then
\* the download failed
C9_Witness ==
    \E t \in Deliverers :
        /\ NullFetchReturned(t)
        /\ ptype_of(task[t].post) = Photo
        /\ Ref(t) = Handle
        /\ task[t].lookups = 1
        /\ task[t].sends = 0
        /\ task[t].mid = None

\* the delivery of task t returned to the loop body, which is through with it
DeliveryOutcomeKnown(t) == task[t].pc \in {"pace", "reread", "reply"} /\ task[t].k >= 1

\* C10: within one firing every channel of the list gets its delivery, in
\* the order of the list, whatever the earlier deliveries returned: after the
\* k-th pass of the loop k deliveries have returned, at the end of the loop
\* as many as the list has channels, and a delivery returns None only for a
\* failure of its own (its reference does not resolve, its media is not
\* fetched, its send raises), so that it returns a message id of its own
\* channel when nothing of its own fails, also after a None.
C10_NullDeliveryLeavesOthersAlone ==
    \A t \in Deliverers :
        DeliveryOutcomeKnown(t) =>
            /\ Len(task[t].results) = task[t].k
            /\ task[t].pc \in {"reread", "reply"} =>
                   task[t].k = Len(cfg.CHANNEL_IDS)
            /\ task[t].results[task[t].k] = task[t].mid
            /\ truthy(task[t].mid) <=> task[t].cause = "none"
            /\ truthy(task[t].mid) =>
                   /\ task[t].chat_id =
                          IntVal(IF Ref(t).kind = "int" THEN Ref(t).n
                                 ELSE get_chat_id(Ref(t)))
                   /\ \E m \in published :
                          /\ m.chat_id = task[t].chat_id.n
                          /\ m.message_id = task[t].mid.n
                          /\ m.at = task[t].returned_at

\* the handle did not resolve and the delivery to the numeric id that comes
\* after it in the list succeeded
C10_Witness ==
    \E t \in Deliverers :
        /\ task[t].pc \in {"reread", "reply"}
        /\ cfg.CHANNEL_IDS = <<Handle, IntVal(NumericChat)>>
        /\ Len(task[t].results) = 2
        /\ task[t].results[1] = None
        /\ truthy(task[t].results[2])
        /\ task[t].chat_id = IntVal(NumericChat)

(***************************************************************************)
(* Claims about the autodelete worker (Spec).                              *)
(***************************************************************************)
\* the delete_messages calls made for the row with this id
AttemptsOn(row_id) == {x \in retractions : x.row_id = row_id}

\* C11: a row leaves the table only after a delete_messages call for it has
\* returned or raised, and then it leaves whether the call returned or
\* raised; each row gets one such call and no more, also when the call
\* raised and later polls have run.
C11_OneAttemptThenRemoved ==
    /\ \A id \in gone : Cardinality(AttemptsOn(id)) = 1
    /\ \A x \in retractions :
           /\ x.row_id \in gone
           /\ x.row_id \notin RowIds(ledger)
           /\ Cardinality(AttemptsOn(x.row_id)) = 1
    /\ \A r \in ledger : AttemptsOn(r.id) = {}

\* a delete_messages call raised, its row is out of the table, and the
\* reaper has since finished a later batch without calling for it again
C11_Witness ==
    \E x \in retractions :
        /\ ~x.ok
        /\ x.row_id \in gone
        /\ \E y \in retractions : y.poll > x.poll
        /\ reaper.pc = "sleep"

\* the times the message of this channel was published at
PublishedAt(chat_id, message_id) ==
    {m.at : m \in {p \in published : p.chat_id = chat_id /\ p.message_id = message_id}}

\* C13, as the specification states it: no message is retracted before its
\* retention period is over.  Each delete_messages call was made in a poll
\* whose clock reading was at or after the row's delete_at, and ended at or
\* after that reading; the row was of a published message, and its
\* delete_at is at or after the time of publication plus the retention
\* period.  The program violates it in a zone whose offset goes up between
\* the publication and the due time: delete_at is the timestamp of the same
\* wall-clock reading AUTO_DELETE_AFTER_DAYS days on, an hour less than the
\* retention period away.
C13_NoRetractionBeforeRetention ==
    \A x \in retractions :
        /\ x.poll >= x.due
        /\ x.at >= x.poll
        /\ PublishedAt(x.chat_id, x.message_id) # {}
        /\ \A at \in PublishedAt(x.chat_id, x.message_id) :
               x.due >= at + RetentionSeconds

\* what holds of the program in every zone: no delete_messages call is made
\* before the delete_at of its row, neither the ones made nor the one in
\* flight
C13_NoRetractionBeforeDue ==
    /\ \A x \in retractions :
           /\ x.poll >= x.due
           /\ x.at >= x.poll
           /\ PublishedAt(x.chat_id, x.message_id) # {}
    /\ reaper.pc = "retract" =>
           /\ now >= reaper.now_ts
           /\ reaper.now_ts >= DeleteAtOf(reaper.table, reaper.rows[reaper.i][1])

\* and the delete_at of a row is the timestamp of the wall-clock reading
\* AUTO_DELETE_AFTER_DAYS days after the one of the publication: the
\* retention period away when the offset is the same at both, an hour less
\* when it went up in between, an hour more when it went down
C13_DueAtSameWallClockReading ==
    \A r \in ledger :
        /\ PublishedAt(r.chat_id, r.message_id) # {}
        /\ \A at \in PublishedAt(r.chat_id, r.message_id) :
               /\ now_local(r.delete_at)
                      = plus_days(now_local(at), AUTO_DELETE_AFTER_DAYS)
               /\ r.delete_at - at
                      = RetentionSeconds
                          - (utcoffset(cfg.TIMEZONE, r.delete_at)
                               - utcoffset(cfg.TIMEZONE, at))

\* in the zone that keeps its offset the retention period is kept: the
\* delete_at of every row and of every call is the time of publication plus
\* the retention period
C13_RetentionKeptWithoutChange ==
    cfg.TIMEZONE = FixedZone =>
        /\ \A x \in retractions :
               \A at \in PublishedAt(x.chat_id, x.message_id) :
                   x.due = at + RetentionSeconds
        /\ \A r \in ledger :
               \A at \in PublishedAt(r.chat_id, r.message_id) :
                   r.delete_at = at + RetentionSeconds

(***************************************************************************)
(* Claims about one firing (Spec).                                         *)
(***************************************************************************)
\* the numeric id of the channel a reference of the list stands for
ChannelOf(ref) == IF ref.kind = "int" THEN ref.n ELSE HandleChat

\* task t is in a firing that has started its k-th delivery
InFiring(t) ==
    /\ task[t].k >= 1
    /\ task[t].pc \notin {"idle", "start", "arm", "sleep", "dead"}

\* C18: within one firing the deliveries go through config.CHANNEL_IDS in
\* its order and one at a time: while the k-th delivery runs, the passes
\* before it are over, enqueue included; the j-th message went to the j-th
\* channel of the list, the j-th row is for that channel, and the rows of the
\* firing have ids that grow with j.
C18_DeliveriesInListOrder ==
    \A t \in Deliverers :
        InFiring(t) =>
            /\ task[t].k <= Len(cfg.CHANNEL_IDS)
            /\ Len(task[t].row_ids) \in {task[t].k - 1, task[t].k}
            /\ Len(task[t].results) \in {task[t].k - 1, task[t].k}
            /\ Len(task[t].results) >= Len(task[t].row_ids)
            /\ \A j \in DOMAIN task[t].results :
                   truthy(task[t].results[j]) =>
                       PublishedAt(ChannelOf(cfg.CHANNEL_IDS[j]),
                                   task[t].results[j].n) # {}
            /\ \A j \in DOMAIN task[t].row_ids :
                   task[t].row_ids[j] # 0 =>
                       /\ \A r \in ledger :
                              r.id = task[t].row_ids[j] =>
                                  /\ r.chat_id = ChannelOf(cfg.CHANNEL_IDS[j])
                                  /\ r.message_id = task[t].results[j].n
                       /\ \A i \in 1..(j - 1) :
                              task[t].row_ids[i] < task[t].row_ids[j]

\* a firing inserted a row for each of the two channels, and a row of
\* another task came between them
C18_Witness ==
    \E t \in Deliverers :
        /\ InFiring(t)
        /\ Len(task[t].row_ids) = 2
        /\ task[t].row_ids[1] # 0
        /\ task[t].row_ids[2] > task[t].row_ids[1] + 1
        /\ \A j \in 1..2 : \E r \in ledger : r.id = task[t].row_ids[j]

\* the timer of worker t is set to an occurrence of its schedule, at most
\* a week away
WakesAtOccurrence(t) ==
    LET target == now_local(task[t].wake)
    IN  /\ task[t].wake - now <= 7 * DaySeconds
        /\ weekday(target) = task[t].wd
        /\ dt_hour(target) = task[t].h
        /\ dt_minute(target) = task[t].m
        /\ dt_second(target) = 0

\* the sleep of worker t ends at an occurrence of its schedule, at most a
\* week away, and is not overdue
SleepsUntilOccurrence(t) ==
    /\ task[t].wake > now - 1
    /\ WakesAtOccurrence(t)

\* C19: a delivery makes at most one send_* call.  When the call raises, the
\* delivery returns None to the loop, the task lives on, and no second call
\* is made: a firing has made at most one send_* call per channel it has
\* come to, and a worker whose firing is over sleeps until an occurrence of
\* its schedule.
C19_AtMostOneSendNoRetry ==
    \A t \in Deliverers :
        /\ task[t].sends <= 1
        /\ task[t].firing_sends <= task[t].k
        /\ task[t].firing_sends <= Len(cfg.CHANNEL_IDS)
        /\ task[t].cause = "send" =>
               /\ task[t].pc \in {"returned", "pace", "deliver", "reread",
                                  "reply"}
               /\ task[t].mid = None
               /\ task[t].sends = 1
               /\ task[t].inserted = 0
        /\ (t \in Workers /\ task[t].pc = "sleep") => SleepsUntilOccurrence(t)

\* a send raised: the delivery has returned None after its one call and the
\* loop is through with that channel
C19_Witness ==
    \E t \in Deliverers :
        /\ task[t].pc = "pace"
        /\ task[t].cause = "send"
        /\ task[t].mid = None
        /\ task[t].sends = 1
        /\ task[t].firing_sends = task[t].k

\* task t waits for a network response of its delivery: an answer of the
\* channel client, or the answer of the server of a remote media
WaitsForNetwork(t) == task[t].pc \in {"lookup", "send", "relookup", "download"}

\* C17: while a task waits for a network response of its delivery, it does
\* not hold the event loop: the other tasks and the reaper can be scheduled.
C17_WaitingTaskFreesTheLoop ==
    \A t \in Deliverers : WaitsForNetwork(t) => running # t

\* the same for the answers of the channel client alone
C17_ClientCallFreesTheLoop ==
    \A t \in Deliverers : AwaitsClient(t) => running # t

\* the delivery of task t has returned to its caller
DeliveryReturned(t) == task[t].pc = "returned"

\* C20: when a delivery returns, none of the files it wrote (the downloaded
\* copy of a remote media, the converted image or video) exists any more.
C20_NoFileLeftBehind ==
    \A t \in Deliverers :
        DeliveryReturned(t) => task[t].created \cap files.present = {}

\* C14: every row of the table holds the chat id of the chat its message was
\* published in: its (chat_id, message_id) is a message the channel client
\* accepted.
C14_RowHoldsPublishedChat ==
    \A r \in ledger :
        \E p \in published :
            p.chat_id = r.chat_id /\ p.message_id = r.message_id

\* the schedules config.py holds in the model and, for each, what
\* _resolve_schedule_tuple gives
ModelSchedules ==
    Schedules1 \cup EditedSchedules
      \cup {Config(<<>>).SCHEDULE[i] : i \in DOMAIN Config(<<>>).SCHEDULE}
ScheduleTuples == [e \in ModelSchedules |-> resolve_schedule_tuple(e)]

\* what _resolve_schedule_tuple gives for item i as config.py is now
schedule_tuple(i) == ScheduleTuples[cfg.SCHEDULE[i]]

\* the schedule of item i in config.py is present and well formed: it is
\* read without an exception and its hour and minute are a time of day
valid_schedule(i) ==
    LET r == schedule_tuple(i)
    IN  ~r.raised /\ replace_time(DateTime(0, 0), r.h, r.m) # ValueError

\* worker t was started with a valid schedule
StartedValid(t) == valid_schedule(ItemOf(t))

\* C15: a worker started with a valid schedule never ends: whatever its
\* deliveries and its inserts into the table did, it is starting, sleeping
\* until an occurrence of its schedule, or in a firing.
C15_ValidWorkerNeverEnds ==
    \A t \in Workers :
        StartedValid(t) =>
            /\ task[t].pc # "dead"
            /\ task[t].pc = "sleep" => SleepsUntilOccurrence(t)

\* the same when no db_* call raises: whatever each delivery returned
\* (resolution failed, media missing, send raised), the worker lives on
C15_DeliveryOutcomesNeverEndWorker ==
    \A t \in Workers :
        /\ task[t].pc # "dead"
        /\ task[t].pc = "sleep" => SleepsUntilOccurrence(t)

\* C16: the reaper never ends: an error on a due row (delete_messages
\* raised, a db_* call raised) is followed by the rest of the batch and by
\* the later polls.
C16_ReaperNeverEnds ==
    /\ reaper.pc # "dead"
    /\ \A x \in retractions :
           x.row_id \in RowIds(ledger) => reaper.pc = "retract"

\* the same for the errors of delete_messages alone
C16_FailedRetractionKeepsReaper ==
    /\ reaper.pc # "dead"
    /\ \A x \in retractions : ~x.ok => x.row_id \in gone
    /\ reaper.pc = "sleep" => reaper.wake <= now + PollSeconds

\* worker u keeps the cycle config.py gives it: the schedule it holds is
\* the one of its item, and its timer is set to an occurrence of it
KeepsItsCycle(u) ==
    LET r == schedule_tuple(ItemOf(u))
    IN  /\ task[u].pc # "dead"
        /\ task[u].pc # "start" =>
               task[u].wd = r.wd /\ task[u].h = r.h /\ task[u].m = r.m
        /\ task[u].pc = "sleep" => WakesAtOccurrence(u)

\* what holds of the program: an exception in one worker (its schedule
\* missing or malformed, a db_* call that raised) ends that worker and
\* nothing else, and changes the cycle of no other: a worker or the reaper
\* has ended only if it raised itself, every worker that did not raise
\* keeps the cycle of its own schedule, and the reaper its period.
C12_FailureEndsNoOtherTask ==
    /\ \A u \in Workers :
           /\ task[u].pc = "dead" => task[u].raised
           /\ (StartedValid(u) /\ ~task[u].raised) => KeepsItsCycle(u)
           /\ ~StartedValid(u) =>
                  \/ task[u].pc \in {"start", "dead"}
                  \/ task[u].pc = "arm" /\ running = u
    /\ reaper.pc = "dead" => reaper.raised
    /\ (~reaper.raised /\ reaper.pc = "sleep") =>
           reaper.wake <= now + PollSeconds

\* a worker with a valid schedule has ended on an exception, and the other
\* worker has since fired and sleeps until next week, the reaper alive
C12_OtherWorkerWentOn ==
    \E t \in Workers, u \in Workers :
        /\ t # u
        /\ task[t].pc = "dead" /\ task[t].raised /\ StartedValid(t)
        /\ task[u].pc = "sleep"
        /\ task[u].wake - now > 6 * DaySeconds
        /\ published # {}
        /\ reaper.pc # "dead"

\* worker t holds the event loop, the delivery it ran having failed
HoldsLoopAfterFailure(t) == running = t /\ task[t].cause # "none"

\* no sleep of a task other than t is overdue: the timers that fell due
\* have been served
OthersOnTime(t) ==
    /\ \A u \in Workers \ {t} : task[u].pc = "sleep" => now <= task[u].wake
    /\ reaper.pc = "sleep" => now <= reaper.wake

\* C12, as the specification states it: a failure in one worker does not
\* stop, delay or change the cycle of another worker or of the reaper, and
\* does not end the process: the others live and keep their cycles, and
\* when a worker comes out of a delivery that failed no sleep of another
\* task is overdue.  The program violates it: a download that fails on a
\* timeout has held the event loop for UrlTimeout seconds, and the timers
\* that fell due meanwhile are served late.
C12_FailureStaysInItsTask ==
    /\ C12_FailureEndsNoOtherTask
    /\ \A t \in Workers : HoldsLoopAfterFailure(t) => OthersOnTime(t)

\* the lateness a failure causes is the time its blocking call took: no
\* sleep is overdue by more than the seconds the environment made a
\* download or a conversion last
C12_LateByBlockedTimeOnly ==
    /\ \A u \in Workers :
           task[u].pc = "sleep" =>
               now - task[u].wake <= UrlTimeout * budget.faults + budget.delays
    /\ reaper.pc = "sleep" =>
           now - reaper.wake <= UrlTimeout * budget.faults + budget.delays

(***************************************************************************)
(* SpecMedia: one pass of the delivery loop, run by the command handler,   *)
(* for a post of any type whose media is a URL, a relative local path or   *)
(* an absolute local path (bot.py:192-194: a media that does not start     *)
(* with http:// or https:// is a path on this machine).                    *)
(***************************************************************************)
\* the extension a media file of this type has
ext_of(ptype) ==
    CASE ptype = Photo -> str(".jpg") [] ptype = Video -> str(".mp4")
      [] ptype = Voice -> str(".ogg") [] OTHER -> str(".pdf")

\* the places the media of SpecMedia are at: a server, the working
\* directory and a directory given by its absolute path
MediaPlaces == {str("http://h/"), <<>>, str("/srv/")}

\* the posts SpecMedia delivers: a text, a post without "type", a post of
\* each type with a media at each place, and three posts whose type is
\* written with capitals and whose media has a name without suffix, in a
\* directory with a dot in its name or in "."
MediaPosts ==
    {Post("post", StrVal(Text), None), Post("post", None, None)}
      \cup {Post("post", StrVal(ty), StrVal(at \o str("media") \o ext_of(ty))) :
               ty \in MediaTypes, at \in MediaPlaces}
      \cup {Post("post", StrVal(str("Video")), StrVal(str("/srv/d.1/media"))),
            Post("post", StrVal(str("PHOTO")), StrVal(str("./media"))),
            Post("post", StrVal(str("Photo")), StrVal(str("http://h/d.1/media")))}

\* the Content-Type headers of SpecMedia: those of ContentTypes and the
\* types of the other suffixes a photo or a video is sent with, one of them
\* followed by a NO-BREAK SPACE (160)
MediaContentTypes ==
    ContentTypes
      \cup {str("image/png") \o <<160>>, str("video/quicktime"),
            str(" VIDEO/MP4 ")}

\* the directories tempfile.gettempdir() gives in SpecMedia
MediaTmpDirs == {TmpDir, str("/tmp/x.y")}

\* the values of config.CHANNEL_IDS in SpecMedia: those of ChannelLists,
\* and a str that is the number 0, one that is -1 in the digits of
\* Devanagari (U+0967 is 2407), and a SUPERSCRIPT FOUR (8308), a digit
\* that int() does not take
MediaChannelLists ==
    (ChannelLists \ {<<>>})
      \cup {<<StrVal(str("0"))>>, <<StrVal(<<45, 2407>>)>>, <<StrVal(<<8308>>)>>}

\* the media of the post is a file on this machine
is_local(post) ==
    /\ needs_media(ptype_of(post))
    /\ truthy(post.media)
    /\ ~is_url(post.media.s)

InitMedia ==
    /\ ledger = db_init.rows
    /\ seq = db_init.sequence
    /\ gone = {}
    /\ op = NoOp
    /\ wk = NoWk
    /\ now = StartTime
    /\ running = "force"
    /\ \E post \in MediaPosts, tmpdir \in MediaTmpDirs :
          /\ task = [t \in Deliverers |->
                       IF t = "force"
                       THEN [NewTask("deliver") EXCEPT !.post = post, !.k = 1]
                       ELSE NewTask("idle")]
          /\ files = [NewFiles(tmpdir) EXCEPT
                          !.present = IF is_local(post) THEN {post.media.s}
                                      ELSE {}]
    /\ reaper = NewReaper
    /\ client = NewClient
    /\ \E ids \in MediaChannelLists : cfg = Config(ids)
    /\ published = {}
    /\ retractions = {}
    /\ budget = [faults |-> 0, delays |-> 0, forces |-> 0]

NextMedia ==
    \/ \E t \in Deliverers : BeginDelivery(t)
    \/ \E t \in Deliverers, ok \in BOOLEAN : LookupReturn(t, ok)
    \/ \E t \in Deliverers : UrlOpen(t)
    \/ \E t \in Deliverers : FetchMedia(t, MediaContentTypes)
    \/ \E t \in Deliverers, how \in ConversionOutcomes : ConvertMedia(t, how)
    \/ \E t \in Deliverers : CallSend(t)
    \/ \E t \in Deliverers : SendReturn(t)
    \/ \E t \in Deliverers : SendRaise(t)
    \/ \E t \in Deliverers : AfterDelivery(t)
    \/ \E t \in Deliverers, ok \in BOOLEAN : RelookupReturn(t, ok)
    \/ \E t \in Deliverers : Enqueue(t)
    \/ \E t \in Deliverers : PaceDone(t)
    \/ ForceReplied

SpecMedia == InitMedia /\ [][NextMedia]_vars

\* C21: when the media of a post is a local path, the file is still there
\* when the delivery has returned, whether it sent the message or not.
C21_LocalMediaFileKept ==
    \A t \in Deliverers :
        (is_local(task[t].post) /\ task[t].pc \in {"returned", "pace", "reply"})
            => task[t].post.media.s \in files.present

\* the same for a relative path sent as it is (voice, document): neither
\* temp_path nor conv_path names it
C21_RelativeUnconvertedFileKept ==
    \A t \in Deliverers :
        (/\ is_local(task[t].post)
         /\ ~isabs(task[t].post.media.s)
         /\ ptype_of(task[t].post) \in {Voice, Document})
            => task[t].post.media.s \in files.present

(***************************************************************************)
(* SpecDst: _seconds_until_next_weekly and the sleep that follows, in a    *)
(* zone whose UTC offset changes on the Sunday of the week at 01:00 UTC    *)
(* (the rule of the European zones): from +1 h to +2 h in spring, from     *)
(* +2 h to +1 h in autumn.  The clock is the UTC instant; datetime.now(tz) *)
(* is its reading on the wall clock of the zone.                           *)
(***************************************************************************)
\* datetime.now(tz) when the UTC clock reads `utc_dt`
wall_clock(zone, utc_dt) ==
    DateTime(utc_dt.secs + utcoffset(zone, utc_dt.secs), utc_dt.us)

\* the UTC clocks SpecDst starts from: 22:00, 23:30 and 07:30 UTC
DstTimesOfDay == {22 * 3600, 23 * 3600 + 30 * 60, 7 * 3600 + 30 * 60}
DstClocks ==
    {DateTime(d * DaySeconds + t, us) :
        d \in 0..MaxDay, t \in DstTimesOfDay, us \in {0, 1}}

InitDst ==
    /\ ledger = db_init.rows
    /\ seq = db_init.sequence
    /\ gone = {}
    /\ op = NoOp
    /\ SysIdle
    /\ \E z \in DstZones, u \in DstClocks :
          wk = [armed |-> FALSE, slept |-> FALSE, raised |-> FALSE,
                zone |-> z, utc |-> u, now |-> wall_clock(z, u)]

\* bot.py:223-229 and 731: now = datetime.now(tz), the target built from the
\* wall-clock fields of now, and (target - now).total_seconds(): both have
\* the same tzinfo, the difference is the one of the wall-clock fields
DstArm(wd, h, m) ==
    /\ ~wk.armed
    /\ ~wk.slept
    /\ ~wk.raised
    /\ LET wait_s == seconds_until_next_weekly(wk.now, wd, h, m)
       IN  IF wait_s = ValueError
           THEN wk' = [wk EXCEPT !.raised = TRUE]
           ELSE wk' = [armed |-> TRUE, slept |-> FALSE, raised |-> FALSE,
                       zone |-> wk.zone, utc |-> wk.utc, now |-> wk.now,
                       wd |-> wd, h |-> h, m |-> m, armed_utc |-> wk.utc,
                       target |-> next_weekly_target(wk.now, wd, h, m),
                       wait |-> wait_s]
    /\ UNCHANGED <<ledgerVars, op, sysVars>>

\* bot.py:733: await asyncio.sleep(max(1, wait_s)): that many seconds pass,
\* and the wall clock reads what the zone makes of the new instant
DstSleep ==
    /\ wk.armed
    /\ LET woke == dt_plus(wk.utc, max_1(wk.wait))
       IN  wk' = [wk EXCEPT !.armed = FALSE, !.slept = TRUE, !.utc = woke,
                            !.now = wall_clock(wk.zone, woke)]
    /\ UNCHANGED <<ledgerVars, op, sysVars>>

NextDst ==
    \/ \E wd \in 0..6, h \in WeeklyHours, m \in WeeklyMinutes : DstArm(wd, h, m)
    \/ DstSleep

SpecDst == InitDst /\ [][NextDst]_vars

\* the offset of the zone changed while the worker slept
OffsetChangedInSleep ==
    utcoffset(wk.zone, wk.armed_utc.secs) # utcoffset(wk.zone, wk.utc.secs)

\* C22: the worker that slept the computed seconds wakes on the weekday and
\* at the hour and minute of its schedule on the wall clock of the zone,
\* also when the offset of the zone changed meanwhile.
C22_WakesAtScheduledWallClock ==
    wk.slept =>
        /\ weekday(wk.now) = wk.wd
        /\ dt_hour(wk.now) = wk.h
        /\ dt_minute(wk.now) = wk.m

\* the same when the offset did not change during the sleep
C22_WakesOnTimeWithoutChange ==
    (wk.slept /\ ~OffsetChangedInSleep) =>
        /\ weekday(wk.now) = wk.wd
        /\ dt_hour(wk.now) = wk.h
        /\ dt_minute(wk.now) = wk.m

\* across a change of offset the worker wakes exactly one hour from the
\* wall-clock time it aimed at: late in spring, early in autumn
C22_OffByTheChange ==
    (wk.slept /\ OffsetChangedInSleep /\ wk.wait.secs >= 1) =>
        wk.now.secs - wk.target.secs
            = IF wk.zone = "spring" THEN 3600 ELSE 0 - 3600

(***************************************************************************)
(* SpecReaper: the _autodelete_worker alone, on a table that holds rows    *)
(* at startup and gets more while it runs: a table of a few rows, or a     *)
(* backlog of one row more than the LIMIT of the fetch, all due at         *)
(* startup, so that more rows are due than one batch holds.                *)
(***************************************************************************)
\* the rows of the backlog
BacklogRows == ReaperLimit + 1

\* the delete_at a row of SpecReaper can have: due at startup, or due at
\* the poll after the first
ReaperDueTimes == {StartTime, StartTime + PollSeconds}

\* the tables SpecReaper starts from: rows 1..n in NumericChat
RECURSIVE ReaperTables(_)
ReaperTables(n) ==
    IF n = 0 THEN {{}}
    ELSE LET smaller == ReaperTables(n - 1)
         IN  smaller \cup
               {tbl \cup {Row(n, NumericChat, n, d)} :
                   tbl \in {s \in smaller : Cardinality(s) = n - 1},
                   d \in ReaperDueTimes}

\* the backlog: rows 1..BacklogRows in NumericChat, due at startup
ReaperBacklog == {Row(n, NumericChat, n, StartTime) : n \in 1..BacklogRows}

\* delete_messages raises in the runs that start from a table of a few
\* rows; the calls of a run that starts from the backlog return
InitReaper ==
    /\ \E tbl \in ReaperTables(MaxRows - 1) \cup {ReaperBacklog} :
          /\ ledger = tbl
          /\ seq = Cardinality(tbl)
          /\ client = [NewClient EXCEPT !.visible =
                          {<<r.chat_id, r.message_id>> : r \in tbl}]
          /\ budget = [faults |-> IF tbl = ReaperBacklog THEN MaxEvents ELSE 0,
                       delays |-> 0, forces |-> 0]
    /\ gone = {}
    /\ op = NoOp
    /\ wk = NoWk
    /\ now = StartTime
    /\ running = "none"
    /\ task = [t \in Deliverers |-> NewTask("idle")]
    /\ reaper = NewReaper
    /\ files = NewFiles(TmpDir)
    /\ cfg = Config(<<>>)
    /\ published = {}
    /\ retractions = {}

\* bot.py:745: a worker inserts a row while the reaper is at work or asleep;
\* up to MaxRows rows in a run, or one row on top of the backlog
ReaperEnqueue(d) ==
    /\ running = "none"
    /\ seq < MaxRows \/ seq = BacklogRows
    /\ LET after == db_schedule_deletion(ledger, seq, NumericChat, seq + 1, d)
       IN  ledger' = after.rows /\ seq' = after.sequence
    /\ client' = [client EXCEPT !.visible = @ \cup {<<NumericChat, seq + 1>>}]
    /\ UNCHANGED <<gone, op, wk, now, running, task, reaper, files, cfg,
                   published, retractions, budget>>

NextReaper ==
    \/ ReaperPoll
    \/ \E ok \in BOOLEAN : ReaperRetractReturn(ok)
    \/ ReaperPaceDone
    \/ \E d \in ReaperDueTimes : ReaperEnqueue(d)
    \/ Tick

\* the event loop runs a task that is ready, delete_messages returns or
\* raises, and the clock goes on
SpecReaper ==
    /\ InitReaper
    /\ [][NextReaper]_vars
    /\ WF_vars(ReaperPoll)
    /\ WF_vars(\E ok \in BOOLEAN : ReaperRetractReturn(ok))
    /\ WF_vars(ReaperPaceDone)
    /\ WF_vars(Tick)

\* the rows of the table that are due now
DueNow == {r.id : r \in DueRows(ledger, now)}

\* row id has been given to delete_messages and is out of the table
RetractedAndRemoved(id) ==
    /\ id \notin RowIds(ledger)
    /\ \E x \in retractions : x.row_id = id

\* the calls of one poll follow the row ids: the row of a call has a
\* greater id than the rows of the calls the same poll made before
BatchInIdOrder ==
    \A x \in retractions' \ retractions :
        \A y \in retractions : y.poll = x.poll => y.row_id < x.row_id

\* no row of the table is due
NoneDue == DueNow = {}

\* the rows that left the table were given to delete_messages
RemovedWereRetracted == gone \subseteq {x.row_id : x \in retractions}

\* the rows followed one by one: those of a table of a few rows, the last
\* row of the first batch of the backlog, the row beyond it, and the row
\* inserted on top of the backlog
WatchedRows == (1..MaxRows) \cup {ReaperLimit, BacklogRows, BacklogRows + 1}

\* C23: the reaper calls delete_messages for the rows of a batch in
\* ascending row id, and every row that is due is in the end retracted and
\* removed, also when more rows are due than the LIMIT and when rows are
\* inserted during a batch: a row leaves the table only when it was given
\* to delete_messages, and whenever rows are due a time comes when none is
\* (a row that is due stays due as long as it is in the table, so each of
\* them has left it by then); the watched rows are followed one by one.
C23_InOrderAndNoRowStarved ==
    /\ [][BatchInIdOrder]_vars
    /\ []RemovedWereRetracted
    /\ (~NoneDue) ~> NoneDue
    /\ \A id \in WatchedRows : (id \in DueNow) ~> RetractedAndRemoved(id)

\* more rows were due at the first poll than its batch took: it made as
\* many calls as the LIMIT, a row due at that poll was retracted by a later
\* one, and so was a row inserted meanwhile
C23_Witness ==
    /\ Cardinality({w \in retractions : w.poll = StartTime}) = ReaperLimit
    /\ \E y \in retractions : y.poll > StartTime /\ y.due <= StartTime
    /\ \E z \in retractions : z.row_id > BacklogRows /\ z.row_id \in gone


\* the (weekday, hour, minute) worker t holds is the one its schedule in
\* config gives now
HoldsCurrentSchedule(t) ==
    LET r == schedule_tuple(ItemOf(t))
    IN  ~r.raised /\ task[t].wd = r.wd /\ task[t].h = r.h /\ task[t].m = r.m

C24_WitnessEditInSleep ==
    \E t \in Workers :
        /\ task[t].pc = "sleep"
        /\ task[t].stale
        /\ ~HoldsCurrentSchedule(t)
        /\ task[t].wake = StartTime + 600

\* worker t has not begun a pass of the loop over the channels
OutsideTheLoop(t) ==
    /\ task[t].pc \in {"start", "arm", "sleep", "reread"}
    /\ task[t].k = 0
    /\ task[t].lookups = 0
    /\ task[t].sends = 0
    /\ task[t].firing_sends = 0

\* C25: with no channel list (missing or empty) a firing is skipped: the
\* workers never enter the loop over the channels, no lookup and no send is
\* made, nothing is published, no row is inserted, and the worker goes on
\* to read its schedule and to sleep until an occurrence of it.
C25_NoChannelsSkipsFiring ==
    no_channels(cfg.CHANNEL_IDS) =>
        /\ \A t \in Workers :
               /\ OutsideTheLoop(t)
               /\ task[t].pc = "sleep" => SleepsUntilOccurrence(t)
        /\ published = {}
        /\ ledger = {}
        /\ seq = 0
        /\ client = NewClient

\* both workers skipped their firing of Monday and sleep until next Monday
C25_Witness ==
    /\ no_channels(cfg.CHANNEL_IDS)
    /\ \A t \in Workers :
           /\ task[t].pc = "sleep"
           /\ task[t].wake >= StartTime + 600 + 7 * DaySeconds
    /\ published = {}
    /\ ledger = {}

(***************************************************************************)
(* SpecResolve: _resolve_chat_id, bot.py:242-254, applied to an int or to  *)
(* a str of up to MaxRefLen characters, the lookup succeeding or failing.  *)
(***************************************************************************)
MaxRefLen == 3

\* the characters of the strs: "-", "0", "1", "@", "h", and digits that are
\* not ASCII: SUPERSCRIPT TWO (178), ARABIC-INDIC DIGIT ONE (1633),
\* DEVANAGARI DIGIT ONE (2407), SUPERSCRIPT FOUR (8308), CIRCLED DIGIT ONE
\* (9312) and FULLWIDTH DIGIT ONE (65297)
RefChars == {45, 48, 49, 64, 104, 178, 1633, 2407, 8308, 9312, 65297}
RefInts == {-1001, 0, 7}

\* the strs of exactly n characters
RECURSIVE StrsOfLen(_)
StrsOfLen(n) ==
    IF n = 0 THEN {<<>>}
    ELSE {<<c>> \o s : c \in RefChars, s \in StrsOfLen(n - 1)}

ResolveRefs ==
    {IntVal(n) : n \in RefInts}
      \cup {StrVal(s) : s \in UNION {StrsOfLen(n) : n \in 0..MaxRefLen}}

\* mutant: `except RPCError`, only what the channel client raises is caught
caught_rpc_only(exc) == exc = "rpc"

\* bot.py:252: `except Exception as e`: whatever the try raised is caught
caught(exc) == TRUE

\* _resolve_chat_id(chat_ref): what it returns, the get_chat calls it made,
\* and whether an exception left it; lookup_ok is whether get_chat returns
\* and is read only for a reference that needs a lookup
resolve_chat_id(ref, lookup_ok) ==
    LET tried ==
            IF resolve_needs_lookup(ref)
            THEN IF lookup_ok
                 THEN [val |-> IntVal(get_chat_id(ref)), lookups |-> 1,
                       exc |-> "none"]
                 ELSE [val |-> None, lookups |-> 1, exc |-> "rpc"]
            ELSE IF int_of(ref).ok
                 THEN [val |-> IntVal(int_of(ref).val), lookups |-> 0,
                       exc |-> "none"]
                 ELSE [val |-> None, lookups |-> 0, exc |-> "value"]
    IN  [val |-> tried.val, lookups |-> tried.lookups,
         null |-> tried.exc # "none",
         raised |-> tried.exc # "none" /\ ~caught(tried.exc)]

\* a reference is about to be resolved
InitResolve ==
    /\ ledger = db_init.rows
    /\ seq = db_init.sequence
    /\ gone = {}
    /\ \E ref \in ResolveRefs : op = [name |-> "call", ref |-> ref]
    /\ wk = NoWk
    /\ SysIdle

\* bot.py:247-254: the call runs up to its first await.  A reference that
\* needs a lookup leaves the coroutine suspended at `await
\* app_1.get_chat(chat_ref)` (249), nothing returned yet and the event loop
\* free; any other reference is cast, or the cast raises and is caught, and
\* the call has returned with no await.
ResolveCall ==
    /\ op.name = "call"
    /\ op' = IF resolve_needs_lookup(op.ref)
             THEN [name |-> "get_chat", ref |-> op.ref, lookups |-> 1]
             ELSE [name |-> "resolve", ref |-> op.ref,
                   result |-> resolve_chat_id(op.ref, FALSE)]
    /\ UNCHANGED <<ledgerVars, wk, sysVars>>

\* bot.py:249-254: get_chat returns the chat and the call returns its id, or
\* get_chat raises and the call returns None
ResolveReturn(lookup_ok) ==
    /\ op.name = "get_chat"
    /\ op' = [name |-> "resolve", ref |-> op.ref, lookup_ok |-> lookup_ok,
              result |-> resolve_chat_id(op.ref, lookup_ok)]
    /\ UNCHANGED <<ledgerVars, wk, sysVars>>

NextResolve ==
    \/ ResolveCall
    \/ \E lookup_ok \in BOOLEAN : ResolveReturn(lookup_ok)

SpecResolve == InitResolve /\ [][NextResolve]_vars

\* the digits of a str that is digits after at most one minus sign, else <<>>
NumeralDigits(s) ==
    IF s # <<>> /\ Head(s) = 45 THEN Tail(s) ELSE s

\* an int, or a str of decimal digits with at most one leading minus
IsNumericRef(ref) ==
    \/ ref.kind = "int"
    \/ /\ ref.kind = "str"
       /\ NumeralDigits(ref.s) # <<>>
       /\ \A i \in DOMAIN NumeralDigits(ref.s) :
              isdecimal_char(NumeralDigits(ref.s)[i])

\* the integer a numeric reference stands for
NumericValue(ref) ==
    IF ref.kind = "int" THEN ref.n
    ELSE IF Head(ref.s) = 45 THEN 0 - digits_value(Tail(ref.s), 0)
    ELSE digits_value(ref.s, 0)

\* a str with a character that is neither a digit nor a minus sign
IsHandle(ref) ==
    /\ ref.kind = "str"
    /\ \E i \in DOMAIN ref.s : ~isdigit_char(ref.s[i]) /\ ref.s[i] # 45

\* C26: _resolve_chat_id never raises; a numeric reference gives its
\* integer (0 for a reference that is zero, not None) with no lookup; a
\* handle is looked up once and gives the id of the chat, or None when the
\* lookup fails.
C26_ResolveNeverRaises ==
    op.name = "resolve" =>
        /\ ~op.result.raised
        /\ IsNumericRef(op.ref) =>
               /\ op.result.val = IntVal(NumericValue(op.ref))
               /\ op.result.val # None
               /\ op.result.lookups = 0
               /\ ~op.result.null
        /\ IsHandle(op.ref) =>
               /\ op.result.lookups = 1
               /\ op.lookup_ok =>
                      (op.result.val = IntVal(HandleChat) /\ ~op.result.null)
               /\ ~op.lookup_ok => (op.result.val = None /\ op.result.null)
        /\ op.result.null <=> op.result.val = None

\* a str that is neither: minus signs before the digits; int() raises
\* ValueError inside the try and the function returns None
C26_Witness ==
    /\ op.name = "resolve"
    /\ op.ref = StrVal(str("--1"))
    /\ op.result.null
    /\ op.result.lookups = 0
    /\ ~op.result.raised

\* another str that is neither: a digit without a decimal value passes
\* isdigit(), int() raises ValueError and the function returns None
C26_WitnessSuperscript ==
    /\ op.name = "resolve"
    /\ op.ref \in {StrVal(<<178>>), StrVal(<<8308>>), StrVal(<<45, 9312>>)}
    /\ op.result.null
    /\ op.result.lookups = 0
    /\ ~op.result.raised

\* a str of decimal digits of another script is numeric
C26_WitnessArabicIndic ==
    /\ op.name = "resolve"
    /\ op.ref = StrVal(<<45, 1633, 48>>)
    /\ op.result.val = IntVal(0 - 10)
    /\ op.result.lookups = 0

\* so are the digits of Devanagari and the fullwidth ones
C26_WitnessDevanagari ==
    /\ op.name = "resolve"
    /\ op.ref = StrVal(<<45, 2407, 65297>>)
    /\ op.result.val = IntVal(0 - 11)
    /\ op.result.lookups = 0

\* the strs "0", "-0" and "00" give the int 0, which is not None
C26_WitnessZero ==
    /\ op.name = "resolve"
    /\ op.ref \in {StrVal(str("0")), StrVal(str("-0")), StrVal(str("00"))}
    /\ op.result.val = IntVal(0)
    /\ op.result.val # None
    /\ ~op.result.null
    /\ op.result.lookups = 0

\* a handle whose lookup failed
C26_WitnessLookupFailed ==
    /\ op.name = "resolve"
    /\ op.ref = Handle
    /\ ~op.lookup_ok
    /\ op.result.val = None
    /\ op.result.lookups = 1

(***************************************************************************)
(* Claim about the tasks that ended (SpecFaults).                          *)
(***************************************************************************)
\* the task of worker t has ended on an exception
TaskEnded(t) == task[t].pc = "dead"

\* the time a coordinator is given to start an ended worker again
RestartWithin == DaySeconds

\* C27: a worker task that ended on an exception is started again by a
\* coordinator, so that the weekly recurrence of its item goes on: no
\* worker whose schedule is valid is still ended a day after it ended.  The
\* program violates it: main() (bot.py:834-857) creates the tasks and no
\* code starts a task again.
C27_EndedWorkerIsRestarted ==
    \A t \in Workers :
        (TaskEnded(t) /\ StartedValid(t)) =>
            now < task[t].ended_at + RestartWithin

\* what the program does instead: no step brings back a task that ended,
\* however long the program runs
C27_EndedWorkerStaysEnded ==
    [][\A t \in Workers : TaskEnded(t) => task'[t].pc = "dead"]_vars
=============================================================================
